---- MODULE Spec2Model ----
(***************************************************************************)
(* A model of langfuse-go's OpenTelemetry encoder (package otel):         *)
(* EncodeEvents, the aggregation of ingestion events into observation     *)
(* states, the trace contexts, the span assembly and the identifier       *)
(* derivers traceIDFromString / spanIDFromString.                         *)
(*                                                                         *)
(* Representation of Go values:                                            *)
(*   - a Go string is a sequence of characters; a character is the        *)
(*     1-tuple <<c>> of a one-character string, or, for a hex digit that  *)
(*     hex.EncodeToString printed from a digest byte, the 4-tuple         *)
(*     <<"#", seed, i, "hi"|"lo">> (nibble of byte i of sha256(seed));     *)
(*   - a byte is <<"b", n>> with n in 0..255, or <<"h", seed, i>>, byte i  *)
(*     of sha256(seed), or <<"m", c1, c2>>, the byte two hex digits of    *)
(*     different origin decode to.  sha256 is an uninterpreted injective  *)
(*     function: its bytes are named, never computed;                     *)
(*   - a time.Time is its UnixNano() as an integer; a nil *time.Time is   *)
(*     NoTime;                                                             *)
(*   - a nil interface value (any) is Nil; a non-nil one is a tagged      *)
(*     tuple whose first element names its dynamic type.                  *)
(***************************************************************************)
EXTENDS Integers, Sequences, FiniteSets, TLC

VARIABLES
    idIn,           \* the id string handed to the derivers
    now,            \* the wall clock, time.Now().UnixNano()
    traceOut,       \* results of the calls to traceIDFromString(idIn), oldest first
    spanOut,        \* results of the calls to spanIDFromString(idIn), oldest first
    events,         \* EncodeEvents' argument
    pc,             \* EncodeEvents' position: "idle", "contexts", "aggregate", "spans", "marshal", "done"
    idx,            \* index of the next event of the running loop
    traceContexts,  \* map[string]*traceContext
    observations,   \* map[string]*observationState
    order,          \* keys of observations in the order the range loop visited them
    spans,          \* []*tracev1.Span built so far
    payload,        \* the bytes EncodeEvents returned (NoPayload before it returns)
    err,            \* the error EncodeEvents returned
    calls,          \* the locals of each of the concurrent EncodeEvents calls
    cache,          \* a FindCachedGeneration / FindCachedGenerationBatch call and the requests it issued
    request,        \* a PromptRequest and what its Path() returned
    response        \* a response object, the body handed to it, and what Decode returned

vars == <<idIn, now, traceOut, spanOut, events, pc, idx, traceContexts,
          observations, order, spans, payload, err, calls, cache, request, response>>

idVars == <<idIn, traceOut, spanOut>>
encVars == <<events, pc, idx, traceContexts, observations, order, spans, payload, err>>
restVars == <<calls, cache, request, response>>

\* No concurrent calls, no cache lookup, no prompt request and no response in play.
RestIdle ==
    /\ calls = <<>>
    /\ cache = <<>>
    /\ request = <<>>
    /\ response = <<>>

(***************************************************************************)
(* Bounds of the model.                                                    *)
(***************************************************************************)
MaxCalls == 2       \* calls of each deriver on one id
MaxClock == 2       \* wall-clock ticks observed
Slack == 1          \* id lengths tried around the 16 and 32 hex-digit widths
MaxEvents == 2      \* length of the free batches
MaxTime == 2        \* event timestamps 1..MaxTime

(***************************************************************************)
(* Program constants.                                                      *)
(***************************************************************************)
TraceHexLen == 32   \* len(normalized) == 32
SpanHexLen == 16    \* len(normalized) == 16
TraceIDLen == 16    \* sum[:16], randomBytes(16, ...)
SpanIDLen == 8      \* sum[:8], decoded[:8], randomBytes(8, ...)
DigestLen == 32     \* sha256.Sum256 returns [32]byte

(***************************************************************************)
(* Strings.                                                                *)
(***************************************************************************)
\* The Go string with the characters of t, a tuple of one-character strings.
Str(t) == [k \in 1..Len(t) |-> <<t[k]>>]

EmptyString == <<>>

HexDigits == <<"0", "1", "2", "3", "4", "5", "6", "7", "8", "9", "a", "b", "c", "d", "e", "f">>

UpperCase == <<"A", "B", "C", "D", "E", "F", "G", "H", "I", "J", "K", "L", "M",
               "N", "O", "P", "Q", "R", "S", "T", "U", "V", "W", "X", "Y", "Z">>

LowerCase == <<"a", "b", "c", "d", "e", "f", "g", "h", "i", "j", "k", "l", "m",
               "n", "o", "p", "q", "r", "s", "t", "u", "v", "w", "x", "y", "z">>

IsLiteral(ch) == Len(ch) = 1

\* unicode.ToLower on one character.
ToLowerChar(ch) ==
    IF IsLiteral(ch) /\ \E k \in 1..Len(UpperCase) : UpperCase[k] = ch[1]
    THEN <<LowerCase[CHOOSE k \in 1..Len(UpperCase) : UpperCase[k] = ch[1]]>>
    ELSE ch

\* strings.ToLower
ToLower(s) == [k \in 1..Len(s) |-> ToLowerChar(s[k])]

IsSpace(ch) == IsLiteral(ch) /\ ch[1] \in {" ", "\t", "\n", "\r"}

\* strings.TrimSpace: the leading and trailing white space removed.
TrimSpace(s) ==
    IF \A k \in 1..Len(s) : IsSpace(s[k])
    THEN EmptyString
    ELSE LET first == CHOOSE k \in 1..Len(s) :
                          ~IsSpace(s[k]) /\ \A j \in 1..(k - 1) : IsSpace(s[j])
             last == CHOOSE k \in 1..Len(s) :
                          ~IsSpace(s[k]) /\ \A j \in (k + 1)..Len(s) : IsSpace(s[j])
         IN SubSeq(s, first, last)

\* strings.ReplaceAll(s, "-", "")
StripHyphens(s) == SelectSeq(s, LAMBDA ch : ch # <<"-">>)

\* '0' <= ch <= '9' or 'a' <= ch <= 'f'; a digit printed by hex.EncodeToString is one.
IsHexChar(ch) ==
    IF IsLiteral(ch) THEN \E k \in 1..Len(HexDigits) : HexDigits[k] = ch[1] ELSE ch[1] = "#"

HexValue(ch) == (CHOOSE k \in 1..Len(HexDigits) : HexDigits[k] = ch[1]) - 1

\* A mutant of normalizeHex: the id is not lowercased.
normalizeHexNoLower(id) ==
    LET normalized == StripHyphens(TrimSpace(id))
    IN IF \E k \in 1..Len(normalized) : ~IsHexChar(normalized[k])
       THEN EmptyString
       ELSE normalized

normalizeHex(id) ==
    LET normalized == StripHyphens(ToLower(TrimSpace(id)))
    IN IF \E k \in 1..Len(normalized) : ~IsHexChar(normalized[k])
       THEN EmptyString
       ELSE normalized

(***************************************************************************)
(* Bytes, hex and the digest.                                              *)
(***************************************************************************)
\* sha256.Sum256([]byte(seed)): 32 bytes, each named by the seed and its place.
Sha256(seed) == [k \in 1..DigestLen |-> <<"h", seed, k>>]

\* The byte two hex digits stand for.
HexByte(c1, c2) ==
    IF IsLiteral(c1) /\ IsLiteral(c2)
    THEN <<"b", 16 * HexValue(c1) + HexValue(c2)>>
    ELSE IF ~IsLiteral(c1) /\ ~IsLiteral(c2) /\ c1[2] = c2[2] /\ c1[3] = c2[3]
              /\ c1[4] = "hi" /\ c2[4] = "lo"
         THEN <<"h", c1[2], c1[3]>>
         ELSE <<"m", c1, c2>>

\* hex.DecodeString succeeds on s: an even number of hex digits.
HexDecodable(s) == Len(s) % 2 = 0 /\ \A k \in 1..Len(s) : IsHexChar(s[k])

\* hex.DecodeString(s), for a decodable s.
HexDecode(s) == [k \in 1..(Len(s) \div 2) |-> HexByte(s[2 * k - 1], s[2 * k])]

\* The two digits hex.EncodeToString prints for one byte.
HexChars(b) ==
    IF b[1] = "b"
    THEN << <<HexDigits[(b[2] \div 16) + 1]>>, <<HexDigits[(b[2] % 16) + 1]>> >>
    ELSE IF b[1] = "h"
         THEN << <<"#", b[2], b[3], "hi">>, <<"#", b[2], b[3], "lo">> >>
         ELSE << b[2], b[3] >>

\* hex.EncodeToString(bytes)
HexEncode(bytes) == [k \in 1..(2 * Len(bytes)) |-> HexChars(bytes[(k + 1) \div 2])[2 - (k % 2)]]

\* fmt.Sprintf("%d", n)
RECURSIVE Itoa(_)
Itoa(n) ==
    IF n < 0 THEN <<<<"-">>>> \o Itoa(-n)
    ELSE IF n < 10 THEN <<<<HexDigits[n + 1]>>>>
    ELSE Itoa(n \div 10) \o <<<<HexDigits[(n % 10) + 1]>>>>

\* A mutant of uuidFallback: the seed is the timestamp in seconds.
uuidFallbackOfSeconds(ts) == HexEncode(SubSeq(Sha256(Itoa(ts \div 1000000000)), 1, TraceIDLen))

\* uuidFallback(ts): the first 16 digest bytes of the decimal timestamp, in hex.
uuidFallback(ts) == HexEncode(SubSeq(Sha256(Itoa(ts)), 1, TraceIDLen))

\* randomBytes(n, ts): the first n digest bytes of "<ts>:<n>".
randomBytes(n, ts) == SubSeq(Sha256(Itoa(ts) \o <<<<":">>>> \o Itoa(n)), 1, n)

\* traceIDFromString(id), called when time.Now() is clock.
traceIDFromString(id, clock) ==
    IF id = EmptyString THEN randomBytes(TraceIDLen, clock)
    ELSE LET normalized == normalizeHex(id)
         IN IF Len(normalized) = TraceHexLen /\ HexDecodable(normalized)
            THEN HexDecode(normalized)
            ELSE SubSeq(Sha256(id), 1, TraceIDLen)

\* A mutant of spanIDFromString: the 32-digit branch is missing.
spanIDNoLongForm(id, clock) ==
    IF id = EmptyString THEN randomBytes(SpanIDLen, clock)
    ELSE LET normalized == normalizeHex(id)
         IN IF Len(normalized) = SpanHexLen /\ HexDecodable(normalized)
            THEN HexDecode(normalized)
            ELSE SubSeq(Sha256(id), 1, SpanIDLen)

\* spanIDFromString(id), called when time.Now() is clock.
spanIDFromString(id, clock) ==
    IF id = EmptyString THEN randomBytes(SpanIDLen, clock)
    ELSE LET normalized == normalizeHex(id)
         IN IF Len(normalized) = SpanHexLen /\ HexDecodable(normalized)
            THEN HexDecode(normalized)
            ELSE IF Len(normalized) = TraceHexLen /\ HexDecodable(normalized)
                 THEN SubSeq(HexDecode(normalized), 1, SpanIDLen)
                 ELSE SubSeq(Sha256(id), 1, SpanIDLen)

(***************************************************************************)
(* model: the ingestion events and their bodies.                           *)
(***************************************************************************)
Nil == <<>>             \* a nil interface value, a nil pointer

Ptr(v) == <<v>>         \* a non-nil pointer to v

Deref(p) == p[1]

IngestionEventTypeTraceCreate == "trace-create"
IngestionEventTypeGenerationCreate == "generation-create"
IngestionEventTypeGenerationUpdate == "generation-update"
IngestionEventTypeScoreCreate == "score-create"
IngestionEventTypeSpanCreate == "span-create"
IngestionEventTypeSpanUpdate == "span-update"
IngestionEventTypeEventCreate == "event-create"

ObservationLevelDefault == Str(<<"D", "E", "F">>)          \* "DEFAULT"
ObservationLevelWarning == Str(<<"W", "A", "R", "N">>)     \* "WARNING"
ObservationLevelError == Str(<<"E", "R", "R">>)            \* "ERROR"

\* model.Usage{}
ZeroUsage ==
    [Input |-> 0, Output |-> 0, Total |-> 0, Unit |-> EmptyString,
     InputCost |-> 0, OutputCost |-> 0, TotalCost |-> 0,
     PromptTokens |-> 0, CompletionTokens |-> 0, TotalTokens |-> 0]

\* model.Trace{}
ZeroTrace ==
    [shape |-> "Trace", ID |-> EmptyString, Timestamp |-> Nil, Name |-> EmptyString,
     UserID |-> EmptyString, Input |-> Nil, Output |-> Nil, SessionID |-> EmptyString,
     Release |-> EmptyString, Version |-> EmptyString, Metadata |-> Nil, Tags |-> <<>>,
     Public |-> FALSE]

\* model.Generation{}
ZeroGeneration ==
    [shape |-> "Generation", TraceID |-> EmptyString, Name |-> EmptyString,
     StartTime |-> Nil, Metadata |-> Nil, Input |-> Nil, Output |-> Nil,
     Level |-> EmptyString, StatusMessage |-> EmptyString,
     ParentObservationID |-> EmptyString, Version |-> EmptyString, ID |-> EmptyString,
     EndTime |-> Nil, CompletionStartTime |-> Nil, Model |-> EmptyString,
     ModelParameters |-> Nil, Usage |-> ZeroUsage, PromptName |-> EmptyString,
     PromptVersion |-> 0]

\* model.Span{}
ZeroSpan ==
    [shape |-> "Span", TraceID |-> EmptyString, Name |-> EmptyString,
     StartTime |-> Nil, Metadata |-> Nil, Input |-> Nil, Output |-> Nil,
     Level |-> EmptyString, StatusMessage |-> EmptyString,
     ParentObservationID |-> EmptyString, Version |-> EmptyString, ID |-> EmptyString,
     EndTime |-> Nil]

\* model.Event{}
ZeroEvent ==
    [shape |-> "Event", TraceID |-> EmptyString, Name |-> EmptyString,
     StartTime |-> Nil, Metadata |-> Nil, Input |-> Nil, Output |-> Nil,
     Level |-> EmptyString, StatusMessage |-> EmptyString,
     ParentObservationID |-> EmptyString, Version |-> EmptyString, ID |-> EmptyString]

\* model.Score{}
ZeroScore ==
    [shape |-> "Score", ID |-> EmptyString, TraceID |-> EmptyString, Name |-> EmptyString]

\* model.IngestionEvent
IngestionEvent(type, id, timestamp, body) ==
    [Type |-> type, ID |-> id, Timestamp |-> timestamp, Body |-> body]

(***************************************************************************)
(* otel: the observation states and their merge rules.                     *)
(***************************************************************************)
observationKindTrace == "trace"
observationKindSpan == "span"
observationKindGeneration == "generation"
observationKindEvent == "event"

\* The type switches of asTrace, asGeneration, asSpan, asEvent: the body is the
\* record of that type, or a pointer to one.
asTrace(value) == value.shape = "Trace"
asGeneration(value) == value.shape = "Generation"
asSpan(value) == value.shape = "Span"
asEvent(value) == value.shape = "Event"

\* A mutant of coalesceTime: the candidate is taken, nil or not.
coalesceTimeCandidate(current, candidate) == candidate

\* A mutant of coalesceTime: a candidate that is not nil replaces the current time.
coalesceTimeLastWins(current, candidate) == IF candidate # Nil THEN candidate ELSE current

coalesceTime(current, candidate) == IF current # Nil THEN current ELSE candidate

coalesce(current, candidate) == IF current # EmptyString THEN current ELSE candidate

\* A mutant of coalesceAny: a candidate that is not nil replaces the current value.
coalesceAnyLastWins(current, candidate) == IF candidate # Nil THEN candidate ELSE current

coalesceAny(current, candidate) ==
    IF current # Nil THEN current
    ELSE IF candidate = Nil THEN current
    ELSE candidate

\* A mutant of isZeroUsage: only the three counters input, output and total are compared.
isZeroUsageCounters(usage) == usage.Input = 0 /\ usage.Output = 0 /\ usage.Total = 0

isZeroUsage(usage) == usage = ZeroUsage

hasCost(usage) == usage.InputCost # 0 \/ usage.OutputCost # 0 \/ usage.TotalCost # 0

\* The observationState getOrCreateObservation allocates.
NewObservation(kind, fallback) ==
    [kind |-> kind, id |-> EmptyString, traceID |-> EmptyString, parentID |-> EmptyString,
     name |-> EmptyString, startTime |-> Nil, endTime |-> Nil, fallbackTime |-> fallback,
     completionStartTime |-> Nil, level |-> EmptyString, statusMessage |-> EmptyString,
     input |-> Nil, output |-> Nil, metadata |-> Nil, version |-> EmptyString,
     model |-> EmptyString, modelParameters |-> Nil, usage |-> ZeroUsage,
     promptName |-> EmptyString, promptVersion |-> 0, hasPromptVersion |-> FALSE,
     public |-> Nil]

\* A mutant of ObservationKey: the kind's prefix is left out.
ObservationKeyNoKind(kind, id) == <<"", id>>

\* The key of the observations map: the kind's prefix ("trace:", "span:", ...) followed
\* by the id.  No prefix holds a colon but its last character, so the pair names the
\* concatenation.
ObservationKey(kind, id) == <<kind, id>>

\* A mutant of getOrCreateObservation: a new state is allocated whether or not the key
\* holds one.
getOrCreateObservationFresh(obs, key, kind, fallback) == NewObservation(kind, fallback)

\* A mutant of getOrCreateObservation: the state found under the key takes the fallback
\* time of the event at hand.
getOrCreateObservationLatest(obs, key, kind, fallback) ==
    IF key \in DOMAIN obs THEN [obs[key] EXCEPT !.fallbackTime = fallback]
    ELSE NewObservation(kind, fallback)

\* getOrCreateObservation: the state stored under key, or a new one (which the caller's
\* Put stores).
getOrCreateObservation(obs, key, kind, fallback) ==
    IF key \in DOMAIN obs THEN obs[key] ELSE NewObservation(kind, fallback)

\* observations[key] = state
Put(obs, key, state) == [k \in DOMAIN obs \cup {key} |-> IF k = key THEN state ELSE obs[k]]

\* The id a trace-create resolves to: the body's, else the event's, else the fallback.
ResolveTraceID(event) ==
    IF event.Body.ID # EmptyString THEN event.Body.ID
    ELSE IF event.ID # EmptyString THEN event.ID
    ELSE uuidFallback(event.Timestamp)

\* The case IngestionEventTypeTraceCreate of EncodeEvents' second loop.
applyTraceCreate(obs, event) ==
    LET trace == event.Body
        traceID == ResolveTraceID(event)
        key == ObservationKey(observationKindTrace, traceID)
        state == getOrCreateObservation(obs, key, observationKindTrace, event.Timestamp)
    IN Put(obs, key,
           [state EXCEPT
               !.id = traceID,
               !.traceID = traceID,
               !.name = coalesce(state.name, trace.Name),
               !.startTime = coalesceTime(state.startTime, trace.Timestamp),
               !.input = coalesceAny(state.input, trace.Input),
               !.output = coalesceAny(state.output, trace.Output),
               !.version = coalesce(state.version, trace.Version),
               !.public = IF state.public = Nil THEN Ptr(trace.Public) ELSE state.public])

\* The fields applySpanCreate and applyEventCreate (and applyGenerationCreate) coalesce.
CreateCommon(state, id, body) ==
    [state EXCEPT
        !.id = id,
        !.traceID = coalesce(state.traceID, body.TraceID),
        !.parentID = coalesce(state.parentID, body.ParentObservationID),
        !.name = coalesce(state.name, body.Name),
        !.startTime = coalesceTime(state.startTime, body.StartTime),
        !.input = coalesceAny(state.input, body.Input),
        !.output = coalesceAny(state.output, body.Output),
        !.metadata = coalesceAny(state.metadata, body.Metadata),
        !.level = IF state.level = EmptyString THEN body.Level ELSE state.level,
        !.statusMessage = coalesce(state.statusMessage, body.StatusMessage),
        !.version = coalesce(state.version, body.Version)]

\* A mutant of UpdateCommon: an update coalesces the output as a create does.
UpdateCommonCoalescesOutput(state, id, body) ==
    [state EXCEPT
        !.id = id,
        !.traceID = coalesce(state.traceID, body.TraceID),
        !.parentID = coalesce(state.parentID, body.ParentObservationID),
        !.name = coalesce(state.name, body.Name),
        !.startTime = coalesceTime(state.startTime, body.StartTime),
        !.endTime = coalesceTime(state.endTime, body.EndTime),
        !.output = coalesceAny(state.output, body.Output),
        !.metadata = IF body.Metadata # Nil THEN body.Metadata ELSE state.metadata,
        !.level = IF body.Level # EmptyString THEN body.Level ELSE state.level,
        !.statusMessage = IF body.StatusMessage # EmptyString
                          THEN body.StatusMessage ELSE state.statusMessage,
        !.version = IF body.Version # EmptyString THEN body.Version ELSE state.version]

\* The fields applySpanUpdate (and applyGenerationUpdate) merge.
UpdateCommon(state, id, body) ==
    [state EXCEPT
        !.id = id,
        !.traceID = coalesce(state.traceID, body.TraceID),
        !.parentID = coalesce(state.parentID, body.ParentObservationID),
        !.name = coalesce(state.name, body.Name),
        !.startTime = coalesceTime(state.startTime, body.StartTime),
        !.endTime = coalesceTime(state.endTime, body.EndTime),
        !.output = IF body.Output # Nil THEN body.Output ELSE state.output,
        !.metadata = IF body.Metadata # Nil THEN body.Metadata ELSE state.metadata,
        !.level = IF body.Level # EmptyString THEN body.Level ELSE state.level,
        !.statusMessage = IF body.StatusMessage # EmptyString
                          THEN body.StatusMessage ELSE state.statusMessage,
        !.version = IF body.Version # EmptyString THEN body.Version ELSE state.version]

applyGenerationCreate(obs, gen, fallback) ==
    LET id == coalesce(gen.ID, uuidFallback(fallback))
        key == ObservationKey(observationKindGeneration, id)
        state == getOrCreateObservation(obs, key, observationKindGeneration, fallback)
        merged == CreateCommon(state, id, gen)
        setVersion == ~state.hasPromptVersion /\ gen.PromptVersion # 0
    IN Put(obs, key,
           [merged EXCEPT
               !.model = coalesce(state.model, gen.Model),
               !.modelParameters = coalesceAny(state.modelParameters, gen.ModelParameters),
               !.usage = IF isZeroUsage(state.usage) THEN gen.Usage ELSE state.usage,
               !.promptName = coalesce(state.promptName, gen.PromptName),
               !.promptVersion = IF setVersion THEN gen.PromptVersion ELSE state.promptVersion,
               !.hasPromptVersion = IF setVersion THEN TRUE ELSE state.hasPromptVersion,
               !.completionStartTime =
                   coalesceTime(state.completionStartTime, gen.CompletionStartTime)])

applyGenerationUpdate(obs, gen, fallback) ==
    LET id == coalesce(gen.ID, uuidFallback(fallback))
        key == ObservationKey(observationKindGeneration, id)
        state == getOrCreateObservation(obs, key, observationKindGeneration, fallback)
        merged == UpdateCommon(state, id, gen)
    IN Put(obs, key,
           [merged EXCEPT
               !.model = IF gen.Model # EmptyString THEN gen.Model ELSE state.model,
               !.modelParameters = IF gen.ModelParameters # Nil
                                   THEN gen.ModelParameters ELSE state.modelParameters,
               !.usage = IF ~isZeroUsage(gen.Usage) THEN gen.Usage ELSE state.usage,
               !.promptName = IF gen.PromptName # EmptyString
                              THEN gen.PromptName ELSE state.promptName,
               !.promptVersion = IF gen.PromptVersion # 0
                                 THEN gen.PromptVersion ELSE state.promptVersion,
               !.hasPromptVersion = IF gen.PromptVersion # 0
                                    THEN TRUE ELSE state.hasPromptVersion,
               !.completionStartTime =
                   coalesceTime(state.completionStartTime, gen.CompletionStartTime)])

\* A mutant of applySpanCreate: the span takes its trace id only if the trace has a
\* state already.
applySpanCreateKnownTrace(obs, span, fallback) ==
    LET id == coalesce(span.ID, uuidFallback(fallback))
        key == ObservationKey(observationKindSpan, id)
        state == getOrCreateObservation(obs, key, observationKindSpan, fallback)
        known == ObservationKey(observationKindTrace, span.TraceID) \in DOMAIN obs
    IN Put(obs, key,
           CreateCommon(state, id, IF known THEN span ELSE [span EXCEPT !.TraceID = EmptyString]))

\* A mutant of applySpanCreate: the create records the end time it carries.
applySpanCreateRecordsEnd(obs, span, fallback) ==
    LET id == coalesce(span.ID, uuidFallback(fallback))
        key == ObservationKey(observationKindSpan, id)
        state == getOrCreateObservation(obs, key, observationKindSpan, fallback)
        created == CreateCommon(state, id, span)
    IN Put(obs, key, [created EXCEPT !.endTime = coalesceTime(state.endTime, span.EndTime)])

applySpanCreate(obs, span, fallback) ==
    LET id == coalesce(span.ID, uuidFallback(fallback))
        key == ObservationKey(observationKindSpan, id)
        state == getOrCreateObservation(obs, key, observationKindSpan, fallback)
    IN Put(obs, key, CreateCommon(state, id, span))

applySpanUpdate(obs, span, fallback) ==
    LET id == coalesce(span.ID, uuidFallback(fallback))
        key == ObservationKey(observationKindSpan, id)
        state == getOrCreateObservation(obs, key, observationKindSpan, fallback)
    IN Put(obs, key, UpdateCommon(state, id, span))

\* A mutant of applyEventCreate: an event without id is passed over.
applyEventCreateNeedsID(obs, ev, fallback) ==
    LET key == ObservationKey(observationKindEvent, ev.ID)
        state == getOrCreateObservation(obs, key, observationKindEvent, fallback)
    IN IF ev.ID = EmptyString THEN obs ELSE Put(obs, key, CreateCommon(state, ev.ID, ev))

applyEventCreate(obs, ev, fallback) ==
    LET id == coalesce(ev.ID, uuidFallback(fallback))
        key == ObservationKey(observationKindEvent, id)
        state == getOrCreateObservation(obs, key, observationKindEvent, fallback)
    IN Put(obs, key, CreateCommon(state, id, ev))

\* The switch on event.Type of EncodeEvents' second loop; a body that is not of the
\* declared kind's type leaves the map as it is (continue).
Dispatch(obs, event) ==
    IF event.Type = IngestionEventTypeTraceCreate
    THEN IF asTrace(event.Body) THEN applyTraceCreate(obs, event) ELSE obs
    ELSE IF event.Type = IngestionEventTypeGenerationCreate
    THEN IF asGeneration(event.Body)
         THEN applyGenerationCreate(obs, event.Body, event.Timestamp) ELSE obs
    ELSE IF event.Type = IngestionEventTypeGenerationUpdate
    THEN IF asGeneration(event.Body)
         THEN applyGenerationUpdate(obs, event.Body, event.Timestamp) ELSE obs
    ELSE IF event.Type = IngestionEventTypeSpanCreate
    THEN IF asSpan(event.Body) THEN applySpanCreate(obs, event.Body, event.Timestamp) ELSE obs
    ELSE IF event.Type = IngestionEventTypeSpanUpdate
    THEN IF asSpan(event.Body) THEN applySpanUpdate(obs, event.Body, event.Timestamp) ELSE obs
    ELSE IF event.Type = IngestionEventTypeEventCreate
    THEN IF asEvent(event.Body) THEN applyEventCreate(obs, event.Body, event.Timestamp) ELSE obs
    ELSE obs

\* A mutant of ApplyEvent: a score-create allocates a state, as an event-create does.
ApplyEventScoreAggregated(obs, event) ==
    IF event.Type = IngestionEventTypeScoreCreate
    THEN Put(obs, ObservationKey(observationKindEvent, event.ID),
             getOrCreateObservation(obs, ObservationKey(observationKindEvent, event.ID),
                                    observationKindEvent, event.Timestamp))
    ELSE Dispatch(obs, event)

\* One iteration of EncodeEvents' second loop.
ApplyEvent(obs, event) == Dispatch(obs, event)

(***************************************************************************)
(* otel: attributes, trace contexts and spans.                             *)
(***************************************************************************)
\* An attribute key is a literal, or a literal prefix followed by a metadata key: the
\* pair <<prefix, rest>> names the concatenation.
attrString(prefix, rest, value) == [key |-> <<prefix, rest>>, value |-> <<"string", value>>]

attrBool(prefix, value) == [key |-> <<prefix, EmptyString>>, value |-> <<"bool", value>>]

attrInt(prefix, value) == [key |-> <<prefix, EmptyString>>, value |-> <<"int", value>>]

attrStringArray(prefix, values) ==
    [key |-> <<prefix, EmptyString>>,
     value |-> <<"array", [k \in 1..Len(values) |-> <<"string", values[k]>>]>>]

IsMap(value) ==
    value # Nil /\ value[1] \in {"map[string]string", "map[string]any", "model.M"}

\* What json.Marshal keeps of a value: its dynamic type is forgotten, the keys of an
\* object are sorted (the function from key to value has no order).
RECURSIVE JSONValue(_)
JSONValue(value) ==
    IF value = Nil THEN <<"null">>
    ELSE IF value[1] = "map[string]string"
    THEN <<"object", [k \in DOMAIN value[2] |-> <<"string", value[2][k]>>]>>
    ELSE IF value[1] \in {"map[string]any", "model.M"}
    THEN <<"object", [k \in DOMAIN value[2] |-> JSONValue(value[2][k])]>>
    ELSE value

\* jsonString(value): the JSON text of value, held as a string of one symbol that names
\* what was marshalled; the empty string for nil.
jsonString(value) ==
    IF value = Nil THEN EmptyString ELSE << <<"json", JSONValue(value), 0, "">> >>

\* t.UTC().Format(time.RFC3339Nano), held as a string of one symbol.
FormatTime(t) == << <<"time", t, 0, "">> >>

\* The orders in which a range loop may visit the keys of a map.
RECURSIVE Orders(_)
Orders(keys) ==
    IF keys = {} THEN {<<>>}
    ELSE UNION { { <<k>> \o rest : rest \in Orders(keys \ {k}) } : k \in keys }

\* The orders in which appendMetadataAttrs may visit metadata.
MetadataOrders(metadata) == IF IsMap(metadata) THEN Orders(DOMAIN metadata[2]) ELSE {<<>>}

\* appendMetadataAttrs, the range loop visiting the keys in the order visit.  The type
\* switch has a case for map[string]string and one for map[string]any; a value of any
\* other type, a model.M included, takes the default case.
appendMetadataAttrs(prefix, metadata, attrs, visit) ==
    IF metadata = Nil THEN attrs
    ELSE LET keys == SelectSeq(visit, LAMBDA key : key # EmptyString)
         IN IF metadata[1] = "map[string]string"
            THEN attrs \o [k \in 1..Len(keys) |->
                            attrString(prefix, keys[k], metadata[2][keys[k]])]
            ELSE IF metadata[1] = "map[string]any"
            THEN attrs \o [k \in 1..Len(keys) |->
                            attrString(prefix, keys[k], jsonString(metadata[2][keys[k]]))]
            ELSE attrs \o <<attrString(prefix, Str(<<"r", "a", "w">>), jsonString(metadata))>>

\* if cond { attrs = append(attrs, attr) }
Opt(cond, attr) == IF cond THEN <<attr>> ELSE <<>>

\* A mutant of RootAttrs: the trace name is emitted even when it is empty.
RootAttrsNameAlways(trace) ==
    <<attrString("langfuse.trace.name", EmptyString, trace.Name)>>
    \o Opt(trace.Input # Nil,
           attrString("langfuse.trace.input", EmptyString, jsonString(trace.Input)))
    \o Opt(trace.Output # Nil,
           attrString("langfuse.trace.output", EmptyString, jsonString(trace.Output)))
    \o <<attrBool("langfuse.trace.public", trace.Public)>>

\* buildTraceContext's rootAttrs.
RootAttrs(trace) ==
    Opt(trace.Name # EmptyString, attrString("langfuse.trace.name", EmptyString, trace.Name))
    \o Opt(trace.Input # Nil,
           attrString("langfuse.trace.input", EmptyString, jsonString(trace.Input)))
    \o Opt(trace.Output # Nil,
           attrString("langfuse.trace.output", EmptyString, jsonString(trace.Output)))
    \o <<attrBool("langfuse.trace.public", trace.Public)>>

\* buildTraceContext(traceID, trace), the metadata visited in the order visit.
buildTraceContext(traceID, trace, visit, clock) ==
    [traceID |-> traceID,
     traceIDBytes |-> traceIDFromString(traceID, clock),
     rootSpanID |-> spanIDFromString(traceID, clock),
     propagateAttrs |->
        appendMetadataAttrs("langfuse.trace.metadata.", trace.Metadata,
            Opt(trace.UserID # EmptyString, attrString("langfuse.user.id", EmptyString, trace.UserID))
            \o Opt(trace.SessionID # EmptyString,
                   attrString("langfuse.session.id", EmptyString, trace.SessionID))
            \o Opt(trace.Release # EmptyString,
                   attrString("langfuse.release", EmptyString, trace.Release))
            \o Opt(trace.Version # EmptyString,
                   attrString("langfuse.version", EmptyString, trace.Version))
            \o Opt(Len(trace.Tags) > 0, attrStringArray("langfuse.trace.tags", trace.Tags)),
            visit),
     rootAttrs |-> RootAttrs(trace)]

\* usageDetails(usage): the non-zero counters, by name.
usageDetails(usage) ==
    LET names == {"Input", "Output", "Total", "PromptTokens", "CompletionTokens", "TotalTokens"}
        set == {n \in names : usage[n] # 0} \cup (IF usage.Unit # EmptyString THEN {"Unit"} ELSE {})
    IN <<"usage", [n \in set |-> usage[n]]>>

\* costDetails(usage): the non-zero costs, by name.
costDetails(usage) ==
    <<"cost", [n \in {m \in {"InputCost", "OutputCost", "TotalCost"} : usage[m] # 0} |-> usage[n]]>>

observationType(kind) ==
    IF kind = observationKindGeneration THEN Str(<<"g", "e", "n", "e", "r", "a", "t", "i", "o", "n">>)
    ELSE IF kind = observationKindEvent THEN Str(<<"e", "v", "e", "n", "t">>)
    ELSE IF kind \in {observationKindTrace, observationKindSpan} THEN Str(<<"s", "p", "a", "n">>)
    ELSE EmptyString

\* observationAttributes(state), the metadata visited in the order visit.
observationAttributes(state, visit) ==
    LET head ==
            Opt(observationType(state.kind) # EmptyString,
                attrString("langfuse.observation.type", EmptyString, observationType(state.kind)))
            \o Opt(state.level # EmptyString,
                   attrString("langfuse.observation.level", EmptyString, state.level))
            \o Opt(state.statusMessage # EmptyString,
                   attrString("langfuse.observation.status_message", EmptyString, state.statusMessage))
            \o Opt(state.input # Nil,
                   attrString("langfuse.observation.input", EmptyString, jsonString(state.input)))
            \o Opt(state.output # Nil,
                   attrString("langfuse.observation.output", EmptyString, jsonString(state.output)))
    IN appendMetadataAttrs("langfuse.observation.metadata.", state.metadata, head, visit)
       \o Opt(state.model # EmptyString,
              attrString("langfuse.observation.model.name", EmptyString, state.model))
       \o Opt(state.modelParameters # Nil,
              attrString("langfuse.observation.model.parameters", EmptyString,
                         jsonString(state.modelParameters)))
       \o Opt(~isZeroUsage(state.usage),
              attrString("langfuse.observation.usage_details", EmptyString,
                         jsonString(usageDetails(state.usage))))
       \o Opt(hasCost(state.usage),
              attrString("langfuse.observation.cost_details", EmptyString,
                         jsonString(costDetails(state.usage))))
       \o Opt(state.promptName # EmptyString,
              attrString("langfuse.observation.prompt.name", EmptyString, state.promptName))
       \o Opt(state.hasPromptVersion,
              attrInt("langfuse.observation.prompt.version", state.promptVersion))
       \o Opt(state.completionStartTime # Nil,
              attrString("langfuse.observation.completion_start_time", EmptyString,
                         FormatTime(Deref(state.completionStartTime))))
       \o Opt(state.version # EmptyString,
              attrString("langfuse.version", EmptyString, state.version))
       \o Opt(state.kind = observationKindTrace /\ state.public # Nil,
              attrBool("langfuse.trace.public", Deref(state.public)))

\* string(state.kind), held as a string of one symbol.
KindName(kind) == << <<kind>> >>

\* traceContexts[key]: the context stored under key, or nil.
Lookup(contexts, key) == IF key \in DOMAIN contexts THEN contexts[key] ELSE Nil

\* A mutant of buildSpan's parent resolution: an explicit parent that is not a root
\* span falls back to the trace's root span.
ParentSpanIDViaTrace(state, traceCtx, clock) ==
    IF state.kind = observationKindTrace THEN <<>>
    ELSE IF traceCtx # Nil THEN traceCtx.rootSpanID
    ELSE IF state.parentID # EmptyString THEN spanIDFromString(state.parentID, clock)
    ELSE <<>>

\* A mutant of buildSpan's parent resolution: a state without explicit parent gets no
\* parent span id, trace context or not.
ParentSpanIDExplicitOnly(state, traceCtx, clock) ==
    IF state.kind = observationKindTrace THEN <<>>
    ELSE IF state.parentID # EmptyString THEN spanIDFromString(state.parentID, clock)
    ELSE <<>>

\* buildSpan's parentSpanID.
\* A mutant of ParentSpanID: the parent id is derived whether or not the state has one.
ParentSpanIDAlwaysDerived(state, traceCtx, clock) ==
    IF state.kind = observationKindTrace THEN <<>>
    ELSE IF state.parentID # EmptyString \/ traceCtx = Nil
         THEN spanIDFromString(state.parentID, clock)
         ELSE traceCtx.rootSpanID

ParentSpanID(state, traceCtx, clock) ==
    IF state.kind = observationKindTrace THEN <<>>
    ELSE IF state.parentID # EmptyString THEN spanIDFromString(state.parentID, clock)
    ELSE IF traceCtx # Nil THEN traceCtx.rootSpanID
    ELSE <<>>

\* A mutant of buildSpan's trace id: without a trace context the state's own trace id is
\* passed over for the fallback.
SpanTraceIDNeedsContext(state, traceCtx) ==
    IF traceCtx # Nil THEN traceCtx.traceID ELSE uuidFallback(state.fallbackTime)

\* buildSpan's traceID: the state's own, else the trace context's, else the fallback
\* derived from the state's fallback time.
SpanTraceID(state, traceCtx) ==
    LET own == state.traceID
        fromCtx == IF own = EmptyString /\ traceCtx # Nil THEN traceCtx.traceID ELSE own
    IN IF fromCtx = EmptyString THEN uuidFallback(state.fallbackTime) ELSE fromCtx

\* A mutant of buildSpan's attributes: the root attributes of the trace context go to
\* every span of the trace.
SpanAttributesRootOnAll(state, traceCtx, visit) ==
    (IF traceCtx # Nil THEN traceCtx.propagateAttrs \o traceCtx.rootAttrs ELSE <<>>)
    \o observationAttributes(state, visit)

\* buildSpan's attrs: the context's propagated attributes, for a trace the context's
\* root attributes, then the observation's own.
SpanAttributes(state, traceCtx, visit) ==
    (IF traceCtx # Nil THEN traceCtx.propagateAttrs ELSE <<>>)
    \o (IF state.kind = observationKindTrace /\ traceCtx # Nil
        THEN traceCtx.rootAttrs ELSE <<>>)
    \o observationAttributes(state, visit)

\* buildSpan(state, traceCtx), the metadata visited in the order visit.
buildSpan(state, traceCtx, visit, clock) ==
    LET traceID == SpanTraceID(state, traceCtx)
        traceIDBytes == IF traceCtx # Nil /\ traceCtx.traceID = traceID
                        THEN traceCtx.traceIDBytes
                        ELSE traceIDFromString(traceID, clock)
        spanID == IF state.kind = observationKindTrace /\ traceCtx # Nil
                  THEN traceCtx.rootSpanID
                  ELSE spanIDFromString(state.id, clock)
        startTime == IF state.startTime = Nil THEN state.fallbackTime ELSE Deref(state.startTime)
        endTime == IF state.endTime = Nil THEN startTime ELSE Deref(state.endTime)
    IN [TraceId |-> traceIDBytes,
        SpanId |-> spanID,
        ParentSpanId |-> ParentSpanID(state, traceCtx, clock),
        Name |-> coalesce(state.name, KindName(state.kind)),
        StartTimeUnixNano |-> startTime,
        EndTimeUnixNano |-> endTime,
        Attributes |-> SpanAttributes(state, traceCtx, visit),
        Status |-> IF state.statusMessage # EmptyString THEN Ptr(state.statusMessage) ELSE Nil]

instrumentationName == Str(<<"langfuse-go">>)

\* proto.Marshal of one span: its fields by field number, a field holding its default
\* (no bytes, the empty string, zero, no message) left out.
MarshalSpan(span) ==
    Opt(span.TraceId # <<>>, <<1, span.TraceId>>)
    \o Opt(span.SpanId # <<>>, <<2, span.SpanId>>)
    \o Opt(span.ParentSpanId # <<>>, <<4, span.ParentSpanId>>)
    \o Opt(span.Name # EmptyString, <<5, span.Name>>)
    \o Opt(span.StartTimeUnixNano # 0, <<7, span.StartTimeUnixNano>>)
    \o Opt(span.EndTimeUnixNano # 0, <<8, span.EndTimeUnixNano>>)
    \o Opt(span.Attributes # <<>>, <<9, span.Attributes>>)
    \o Opt(span.Status # Nil, <<15, span.Status>>)

\* A byte that is no part of any UTF-8 encoding, as a character of a Go string.
InvalidByte == <<"\\xff">>

\* utf8.ValidString
ValidUTF8(s) == \A k \in 1..Len(s) : s[k] # InvalidByte

\* proto.Marshal accepts an attribute: its key and every string it holds are valid UTF-8.
AttrValid(attr) ==
    /\ ValidUTF8(attr.key[2])
    /\ attr.value[1] = "string" => ValidUTF8(attr.value[2])
    /\ attr.value[1] = "array" =>
           \A k \in 1..Len(attr.value[2]) : ValidUTF8(attr.value[2][k][2])

\* proto.Marshal accepts a span: every string field of the message is valid UTF-8.
SpanValid(span) ==
    /\ ValidUTF8(span.Name)
    /\ span.Status # Nil => ValidUTF8(Deref(span.Status))
    /\ \A k \in 1..Len(span.Attributes) : AttrValid(span.Attributes[k])

\* The message proto.Marshal writes for the request holding the spans of list.
Envelope(list) ==
    [resource |-> <<attrString("service.name", EmptyString, instrumentationName)>>,
     scope |-> instrumentationName,
     spans |-> [k \in 1..Len(list) |-> MarshalSpan(list[k])]]

\* A mutant of Marshal: a span proto.Marshal rejects is left out of the payload.
MarshalSkipsInvalid(list) == Envelope(SelectSeq(list, SpanValid))

\* proto.Marshal(request): one resource with its service.name, one scope, the spans;
\* no bytes (and an error) when a string field of a span is not valid UTF-8.
Marshal(list) ==
    IF \A k \in 1..Len(list) : SpanValid(list[k]) THEN Envelope(list) ELSE Nil

(***************************************************************************)
(* The batches EncodeEvents is called on.                                  *)
(***************************************************************************)
T1 == Str(<<"t", "1">>)
S1 == Str(<<"s", "1">>)
G1 == Str(<<"g", "1">>)
E1 == Str(<<"e", "1">>)
S2 == Str(<<"s", "2">>)
MissingParent == Str(<<"m", "i", "s", "s", "i", "n", "g", "-", "p", "a", "r", "e", "n", "t">>)

TextA == Str(<<"a">>)
TextB == Str(<<"b">>)
ValueA == <<"string", TextA>>
ValueB == <<"string", TextB>>
KeyJ == Str(<<"j">>)
KeyK == Str(<<"k">>)
MetaStrings == <<"map[string]string", [k \in {KeyJ, KeyK} |-> IF k = KeyJ THEN TextA ELSE TextB]>>
MetaAny == <<"map[string]any", [k \in {KeyJ, KeyK} |-> IF k = KeyJ THEN ValueA ELSE Nil]>>
UsageA == [ZeroUsage EXCEPT !.Input = 3, !.Output = 4, !.Total = 7, !.TotalCost = 2]
UsageB == [ZeroUsage EXCEPT !.PromptTokens = 5]

Timestamps == 1..MaxTime

\* The events of the free batches: events without id at each timestamp, for every kind
\* a create with id that sets its fields, for spans and generations an update with id
\* that sets them to other values; the events the encoder skips; a span-create under
\* a parent no event creates.
TraceEvents ==
    {IngestionEvent(IngestionEventTypeTraceCreate, EmptyString, ts, ZeroTrace) : ts \in Timestamps}
    \cup {IngestionEvent(IngestionEventTypeTraceCreate, T1, 1,
            [ZeroTrace EXCEPT !.ID = T1, !.Timestamp = Ptr(11), !.Name = TextA,
                              !.UserID = TextA, !.Input = ValueA, !.Metadata = MetaAny,
                              !.Tags = <<TextA>>, !.Public = TRUE]),
          IngestionEvent(IngestionEventTypeTraceCreate, T1, 2,
            [ZeroTrace EXCEPT !.Name = TextB, !.Output = ValueB, !.Version = TextB])}

SpanEvents ==
    {IngestionEvent(IngestionEventTypeSpanCreate, EmptyString, ts, ZeroSpan) : ts \in Timestamps}
    \cup {IngestionEvent(IngestionEventTypeSpanCreate, S1, 1,
            [ZeroSpan EXCEPT !.ID = S1, !.TraceID = T1, !.Name = TextA, !.StartTime = Ptr(12),
                             !.EndTime = Ptr(13), !.Output = ValueA, !.Metadata = MetaStrings,
                             !.Level = ObservationLevelDefault, !.StatusMessage = TextA]),
          IngestionEvent(IngestionEventTypeSpanUpdate, S1, 2,
            [ZeroSpan EXCEPT !.ID = S1, !.EndTime = Ptr(14), !.Output = ValueB,
                             !.Level = ObservationLevelError, !.Version = TextB]),
          IngestionEvent(IngestionEventTypeSpanCreate, S2, 1,
            [ZeroSpan EXCEPT !.ID = S2, !.TraceID = T1, !.ParentObservationID = MissingParent])}

GenerationEvents ==
    {IngestionEvent(IngestionEventTypeGenerationUpdate, EmptyString, ts, ZeroGeneration) :
        ts \in Timestamps}
    \cup {IngestionEvent(IngestionEventTypeGenerationCreate, G1, 1,
            [ZeroGeneration EXCEPT !.ID = G1, !.TraceID = T1, !.ParentObservationID = S1,
                                   !.Name = TextA, !.EndTime = Ptr(13), !.Output = ValueA,
                                   !.Model = TextA, !.Usage = UsageA, !.PromptName = TextA,
                                   !.PromptVersion = 1, !.CompletionStartTime = Ptr(12)]),
          IngestionEvent(IngestionEventTypeGenerationUpdate, G1, 2,
            [ZeroGeneration EXCEPT !.ID = G1, !.EndTime = Ptr(14), !.Output = ValueB,
                                   !.Metadata = MetaAny, !.Model = TextB, !.Usage = UsageB,
                                   !.ModelParameters = ValueB, !.PromptVersion = 2])}

EventEvents ==
    {IngestionEvent(IngestionEventTypeEventCreate, E1, 1,
            [ZeroEvent EXCEPT !.ID = E1, !.TraceID = T1, !.Name = TextA, !.Input = ValueA])}

\* Events the encoder has no case for, or whose body is not of the declared kind's type.
SkippedEvents ==
    {IngestionEvent(IngestionEventTypeScoreCreate, E1, 1, [ZeroScore EXCEPT !.ID = E1, !.TraceID = T1]),
     IngestionEvent(IngestionEventTypeSpanCreate, S1, 1, [ZeroGeneration EXCEPT !.ID = S1]),
     IngestionEvent(IngestionEventTypeTraceCreate, T1, 2, [ZeroSpan EXCEPT !.ID = T1]),
     IngestionEvent("sdk-log", S1, 1, [ZeroSpan EXCEPT !.ID = S1])}

EventUniverse == TraceEvents \cup SpanEvents \cup GenerationEvents \cup EventEvents \cup SkippedEvents

RECURSIVE SeqsUpTo(_, _)
SeqsUpTo(set, n) ==
    IF n = 0 THEN {<<>>}
    ELSE LET shorter == SeqsUpTo(set, n - 1)
         IN shorter \cup {Append(seq, e) : seq \in shorter, e \in set}

FreeBatches == SeqsUpTo(EventUniverse, MaxEvents)

\* The batch of the specification's scenario: trace "t1"; span "s1" created without
\* parent and updated with an end time; generation "g1" created under "s1" and updated
\* with an output and a usage.  What the scenario leaves open is drawn from small sets.
ScenarioBatches ==
    { << IngestionEvent(IngestionEventTypeTraceCreate, T1, 1,
            [ZeroTrace EXCEPT !.ID = T1, !.Name = name, !.Public = public]),
         IngestionEvent(IngestionEventTypeSpanCreate, S1, 1,
            [ZeroSpan EXCEPT !.ID = S1, !.TraceID = traceID]),
         IngestionEvent(IngestionEventTypeSpanUpdate, S1, 2,
            [ZeroSpan EXCEPT !.ID = S1, !.TraceID = traceID, !.EndTime = Ptr(14)]),
         IngestionEvent(IngestionEventTypeGenerationCreate, G1, 1,
            [ZeroGeneration EXCEPT !.ID = G1, !.TraceID = traceID, !.ParentObservationID = S1]),
         IngestionEvent(IngestionEventTypeGenerationUpdate, G1, 2,
            [ZeroGeneration EXCEPT !.ID = G1, !.TraceID = traceID, !.Output = ValueB,
                                   !.Usage = UsageA]) >>
      : name \in {EmptyString, TextA}, public \in BOOLEAN, traceID \in {EmptyString, T1} }

\* The zero body of the type an event type declares.
ZeroBodyOf(type) ==
    IF type = IngestionEventTypeTraceCreate THEN ZeroTrace
    ELSE IF type \in {IngestionEventTypeSpanCreate, IngestionEventTypeSpanUpdate} THEN ZeroSpan
    ELSE IF type = IngestionEventTypeEventCreate THEN ZeroEvent
    ELSE ZeroGeneration

HandledTypes ==
    {IngestionEventTypeTraceCreate, IngestionEventTypeGenerationCreate,
     IngestionEventTypeGenerationUpdate, IngestionEventTypeSpanCreate,
     IngestionEventTypeSpanUpdate, IngestionEventTypeEventCreate}

\* Two events of one observation kind whose bodies carry no id, at any two timestamps;
\* the second may carry an event id.
UnkeyedPairs ==
    UNION { { << IngestionEvent(first, EmptyString, ts1, ZeroBodyOf(first)),
                 IngestionEvent(second, eventID, ts2,
                                [ZeroBodyOf(second) EXCEPT !.Name = TextB]) >>
              : second \in {t \in HandledTypes : ZeroBodyOf(t) = ZeroBodyOf(first)},
                eventID \in {EmptyString, E1}, ts1 \in Timestamps, ts2 \in Timestamps }
          : first \in HandledTypes }

Batches == FreeBatches \cup ScenarioBatches \cup UnkeyedPairs

(***************************************************************************)
(* EncodeEvents as a machine: one step per iteration of its three loops,   *)
(* then proto.Marshal.                                                     *)
(***************************************************************************)
DeriversIdle ==
    /\ idIn = EmptyString
    /\ now = 0
    /\ traceOut = <<>>
    /\ spanOut = <<>>

Init ==
    /\ DeriversIdle
    /\ RestIdle
    /\ events \in Batches
    /\ pc = IF events = <<>> THEN "spans" ELSE "contexts"
    /\ idx = 1
    /\ traceContexts = <<>>
    /\ observations = <<>>
    /\ order = <<>>
    /\ spans = <<>>
    /\ payload = <<>>
    /\ err = FALSE

\* The trace contexts after one iteration of the first loop on event: a trace-create
\* whose body is a trace stores the context built from it under its resolved id,
\* replacing the one stored there.
ContextsAfter(contexts, event, visit, clock) ==
    IF event.Type = IngestionEventTypeTraceCreate /\ asTrace(event.Body)
    THEN LET traceID == ResolveTraceID(event)
         IN [k \in DOMAIN contexts \cup {traceID} |->
                IF k = traceID THEN buildTraceContext(traceID, event.Body, visit, clock)
                ELSE contexts[k]]
    ELSE contexts

\* One iteration of the first loop (lines 496-512).
ContextStep ==
    /\ pc = "contexts"
    /\ idx <= Len(events)
    /\ \E visit \in MetadataOrders(IF asTrace(events[idx].Body)
                                   THEN events[idx].Body.Metadata ELSE Nil) :
           traceContexts' = ContextsAfter(traceContexts, events[idx], visit, now)
    /\ IF idx = Len(events)
       THEN pc' = "aggregate" /\ idx' = 1
       ELSE pc' = pc /\ idx' = idx + 1
    /\ UNCHANGED <<events, observations, order, spans, payload, err>>
    /\ UNCHANGED <<idIn, now, traceOut, spanOut>>
    /\ UNCHANGED restVars

\* One iteration of the second loop (lines 515-571).
AggregateStep ==
    /\ pc = "aggregate"
    /\ idx <= Len(events)
    /\ observations' = ApplyEvent(observations, events[idx])
    /\ IF idx = Len(events)
       THEN pc' = "spans" /\ idx' = 1
       ELSE pc' = pc /\ idx' = idx + 1
    /\ UNCHANGED <<events, traceContexts, order, spans, payload, err>>
    /\ UNCHANGED <<idIn, now, traceOut, spanOut>>
    /\ UNCHANGED restVars

Range(seq) == {seq[k] : k \in 1..Len(seq)}

\* One iteration of the third loop (lines 574-580): the range over the observations
\* map visits a key it has not visited yet, in no fixed order.
SpanStep ==
    /\ pc = "spans"
    /\ \E key \in DOMAIN observations \ Range(order) :
         \E visit \in MetadataOrders(observations[key].metadata) :
           /\ spans' = Append(spans,
                  buildSpan(observations[key],
                            Lookup(traceContexts, observations[key].traceID), visit, now))
           /\ order' = Append(order, key)
    /\ UNCHANGED <<events, pc, idx, traceContexts, observations, payload, err>>
    /\ UNCHANGED <<idIn, now, traceOut, spanOut>>
    /\ UNCHANGED restVars

\* The request is built and marshalled (lines 582-602).
MarshalStep ==
    /\ pc = "spans"
    /\ DOMAIN observations = Range(order)
    /\ payload' = Marshal(spans)
    /\ err' = (Marshal(spans) = Nil)
    /\ pc' = "done"
    /\ UNCHANGED <<events, idx, traceContexts, observations, order, spans>>
    /\ UNCHANGED <<idIn, now, traceOut, spanOut>>
    /\ UNCHANGED restVars

Next == ContextStep \/ AggregateStep \/ SpanStep \/ MarshalStep

Spec == Init /\ [][Next]_vars

\* Batches some of whose strings are not valid UTF-8: a span name, a status message, a
\* trace's tag and user id, a metadata key and a metadata value.
BadText == <<<<"a">>, InvalidByte>>
MetaBadKey == <<"map[string]string", [k \in {BadText} |-> TextA]>>
MetaBadValue == <<"map[string]string", [k \in {KeyJ} |-> BadText]>>
MetaBadJSON == <<"map[string]any", [k \in {KeyJ} |-> <<"string", BadText>>]>>

MarshalUniverse ==
    {IngestionEvent(IngestionEventTypeTraceCreate, T1, 1,
        [ZeroTrace EXCEPT !.ID = T1, !.UserID = BadText]),
     IngestionEvent(IngestionEventTypeTraceCreate, T1, 1,
        [ZeroTrace EXCEPT !.ID = T1, !.Tags = <<TextA, BadText>>]),
     IngestionEvent(IngestionEventTypeTraceCreate, T1, 1,
        [ZeroTrace EXCEPT !.ID = T1, !.Name = TextA, !.Input = <<"string", BadText>>]),
     IngestionEvent(IngestionEventTypeSpanCreate, S1, 1,
        [ZeroSpan EXCEPT !.ID = S1, !.TraceID = T1, !.Name = TextA]),
     IngestionEvent(IngestionEventTypeSpanUpdate, S1, 2,
        [ZeroSpan EXCEPT !.ID = S1, !.StatusMessage = BadText]),
     IngestionEvent(IngestionEventTypeSpanCreate, S2, 1,
        [ZeroSpan EXCEPT !.ID = S2, !.Name = BadText]),
     IngestionEvent(IngestionEventTypeGenerationCreate, G1, 1,
        [ZeroGeneration EXCEPT !.ID = G1, !.Metadata = MetaBadKey]),
     IngestionEvent(IngestionEventTypeGenerationUpdate, G1, 2,
        [ZeroGeneration EXCEPT !.ID = G1, !.Metadata = MetaBadValue]),
     IngestionEvent(IngestionEventTypeEventCreate, E1, 1,
        [ZeroEvent EXCEPT !.ID = E1, !.Metadata = MetaBadJSON, !.Output = ValueA])}

MarshalBatches == SeqsUpTo(MarshalUniverse, MaxEvents)

InitMarshal ==
    /\ DeriversIdle
    /\ RestIdle
    /\ events \in MarshalBatches
    /\ pc = IF events = <<>> THEN "spans" ELSE "contexts"
    /\ idx = 1
    /\ traceContexts = <<>>
    /\ observations = <<>>
    /\ order = <<>>
    /\ spans = <<>>
    /\ payload = <<>>
    /\ err = FALSE

SpecMarshal == InitMarshal /\ [][Next]_vars

(***************************************************************************)
(* EncodeEvents as a relation: every payload a call on a batch may return. *)
(***************************************************************************)
\* The observations map after the second loop has run over batch.
RECURSIVE AggregateAll(_)
AggregateAll(batch) ==
    IF batch = <<>> THEN <<>>
    ELSE ApplyEvent(AggregateAll(SubSeq(batch, 1, Len(batch) - 1)), batch[Len(batch)])

\* The trace-context maps the first loop may leave after it has run over batch.
RECURSIVE ContextChoices(_, _)
ContextChoices(batch, clock) ==
    IF batch = <<>> THEN {<<>>}
    ELSE LET last == batch[Len(batch)]
         IN { ContextsAfter(contexts, last, visit, clock)
              : contexts \in ContextChoices(SubSeq(batch, 1, Len(batch) - 1), clock),
                visit \in MetadataOrders(IF asTrace(last.Body) THEN last.Body.Metadata ELSE Nil) }

\* The span lists the third loop may build from obs and contexts, visiting keys.
RECURSIVE SpanLists(_, _, _, _)
SpanLists(obs, contexts, keys, clock) ==
    IF keys = {} THEN {<<>>}
    ELSE UNION { { <<buildSpan(obs[key], Lookup(contexts, obs[key].traceID), visit, clock)>> \o rest
                   : visit \in MetadataOrders(obs[key].metadata),
                     rest \in SpanLists(obs, contexts, keys \ {key}, clock) }
                 : key \in keys }

\* The payloads EncodeEvents(batch) may return.
AllPayloads(batch, clock) ==
    LET obs == AggregateAll(batch)
    IN UNION { { Marshal(list) : list \in SpanLists(obs, contexts, DOMAIN obs, clock) }
               : contexts \in ContextChoices(batch, clock) }

(***************************************************************************)
(* Claims about EncodeEvents.                                              *)
(***************************************************************************)
Done == pc = "done"

\* The observation kind an event type declares.
KindOfType(type) ==
    IF type = IngestionEventTypeTraceCreate THEN "trace"
    ELSE IF type \in {IngestionEventTypeSpanCreate, IngestionEventTypeSpanUpdate} THEN "span"
    ELSE IF type \in {IngestionEventTypeGenerationCreate, IngestionEventTypeGenerationUpdate}
    THEN "generation"
    ELSE IF type = IngestionEventTypeEventCreate THEN "event"
    ELSE "none"

\* The event is of a kind the encoder handles and its body has that kind's record shape.
Matches(event) ==
    /\ event.Type \in HandledTypes
    /\ event.Body.shape = ZeroBodyOf(event.Type).shape

\* The id an event resolves to: the body's id; else, for a trace, the event's id; else
\* the fallback derived from the event's timestamp.
ResolvedID(event) ==
    IF event.Body.ID # EmptyString THEN event.Body.ID
    ELSE IF event.Type = IngestionEventTypeTraceCreate /\ event.ID # EmptyString THEN event.ID
    ELSE uuidFallback(event.Timestamp)

\* The aggregated (kind, resolved id) key of a matching event.
KeyOf(event) == <<KindOfType(event.Type), ResolvedID(event)>>

DistinctKeys(batch) == {KeyOf(batch[k]) : k \in {j \in 1..Len(batch) : Matches(batch[j])}}

\* The places of the spans emitted for key.
SpansFor(key) == {k \in 1..Len(order) : order[k] = key}

\* The value of the first attribute of span named name, Nil when it has none.
AttrOf(span, name) ==
    LET at == {k \in 1..Len(span.Attributes) : span.Attributes[k].key = <<name, EmptyString>>}
    IN IF at = {} THEN Nil
       ELSE span.Attributes[CHOOSE k \in at : \A j \in at : k <= j].value

\* C1: the payload holds exactly one span per distinct aggregated (kind, resolved id)
\* key of the events whose body matches their declared kind, and each key's span once.
C1_OneSpanPerKey ==
    Done =>
        /\ Len(payload.spans) = Cardinality(DistinctKeys(events))
        /\ \A key \in DistinctKeys(events) : Cardinality(SpansFor(key)) = 1

\* Five events on three keys have been encoded to three spans.
C1_Witness ==
    /\ Done
    /\ Len(events) = 5
    /\ Cardinality(DistinctKeys(events)) = 3
    /\ Len(payload.spans) = 3

\* The key's events are exactly a generation-create at place c and a later
\* generation-update at place u that supplies an output and an end time.
CreateThenUpdate(batch, c, u) ==
    /\ c < u
    /\ batch[c].Type = IngestionEventTypeGenerationCreate /\ Matches(batch[c])
    /\ batch[u].Type = IngestionEventTypeGenerationUpdate /\ Matches(batch[u])
    /\ KeyOf(batch[c]) = KeyOf(batch[u])
    /\ \A k \in 1..Len(batch) :
           Matches(batch[k]) /\ KeyOf(batch[k]) = KeyOf(batch[c]) => k \in {c, u}
    /\ batch[u].Body.Output # Nil
    /\ batch[u].Body.EndTime # Nil

\* C2: a generation-create followed by a generation-update of the same id yields one
\* span, whose output and end timestamp are the update's.
C2_UpdateWinsOutputAndEnd ==
    Done =>
        \A c, u \in 1..Len(events) :
            CreateThenUpdate(events, c, u) =>
                /\ Cardinality(SpansFor(KeyOf(events[c]))) = 1
                /\ \A k \in SpansFor(KeyOf(events[c])) :
                       /\ AttrOf(spans[k], "langfuse.observation.output")
                              = <<"string", jsonString(events[u].Body.Output)>>
                       /\ spans[k].EndTimeUnixNano = Deref(events[u].Body.EndTime)
                       /\ payload.spans[k] = MarshalSpan(spans[k])

\* A create carrying an output and an end time of its own was followed by an update
\* carrying other ones, and the batch is encoded.
C2_Witness ==
    /\ Done
    /\ Len(events) = 2
    /\ CreateThenUpdate(events, 1, 2)
    /\ events[1].Body.Output \notin {Nil, events[2].Body.Output}
    /\ events[1].Body.EndTime \notin {Nil, events[2].Body.EndTime}

TraceKey == <<"trace", T1>>
SpanKey == <<"span", S1>>
GenerationKey == <<"generation", G1>>

HasAttr(span, name) == AttrOf(span, name) # Nil

\* C3 as stated: the scenario's batch yields 3 spans, the generation's parent span id
\* is spanID("s1"), and the trace's span carries a trace-name and a public-flag attribute.
C3_ScenarioAsStated ==
    Done /\ events \in ScenarioBatches =>
        /\ Len(payload.spans) = 3
        /\ \A k \in SpansFor(GenerationKey) :
               spans[k].ParentSpanId = spanIDFromString(S1, now)
        /\ \A k \in SpansFor(TraceKey) :
               /\ HasAttr(spans[k], "langfuse.trace.name")
               /\ HasAttr(spans[k], "langfuse.trace.public")

\* C3, amended: the scenario's batch yields 3 spans, one per key; the generation's
\* parent span id is spanID("s1"); the trace's span carries the public-flag attribute,
\* and a trace-name attribute exactly when the trace-create carries a non-empty name
\* (then with that name).
C3_Scenario ==
    Done /\ events \in ScenarioBatches =>
        /\ Len(payload.spans) = 3
        /\ \A key \in {TraceKey, SpanKey, GenerationKey} : Cardinality(SpansFor(key)) = 1
        /\ \A k \in SpansFor(GenerationKey) :
               /\ spans[k].ParentSpanId = spanIDFromString(S1, now)
               /\ spans[k].ParentSpanId = SubSeq(Sha256(S1), 1, SpanIDLen)
        /\ \A k \in SpansFor(TraceKey) :
               /\ AttrOf(spans[k], "langfuse.trace.public") = <<"bool", events[1].Body.Public>>
               /\ HasAttr(spans[k], "langfuse.trace.name") <=> events[1].Body.Name # EmptyString
               /\ events[1].Body.Name # EmptyString =>
                      AttrOf(spans[k], "langfuse.trace.name") = <<"string", events[1].Body.Name>>

\* The scenario with a named, public trace and observations inside the trace is encoded.
C3_Witness ==
    /\ Done
    /\ events \in ScenarioBatches
    /\ events[1].Body.Name = TextA
    /\ events[1].Body.Public
    /\ events[2].Body.TraceID = T1
    /\ \E k \in SpansFor(TraceKey) : HasAttr(spans[k], "langfuse.trace.name")

\* The event has no id of its own: no id in its body nor, for a trace, on the event.
Unkeyed(event) ==
    /\ event.Body.ID = EmptyString
    /\ event.Type = IngestionEventTypeTraceCreate => event.ID = EmptyString

\* Two matching events of one kind, both without id, at different timestamps.
UnkeyedApart(batch, a, b) ==
    /\ a # b
    /\ Matches(batch[a]) /\ Matches(batch[b])
    /\ KindOfType(batch[a].Type) = KindOfType(batch[b].Type)
    /\ Unkeyed(batch[a]) /\ Unkeyed(batch[b])
    /\ batch[a].Timestamp # batch[b].Timestamp

\* C4: two events of one kind without id and with different timestamps are not merged:
\* each has the fallback id of its own timestamp, its own state and its own span.
C4_UnkeyedNotMerged ==
    pc \in {"spans", "done"} =>
        \A a, b \in 1..Len(events) :
            UnkeyedApart(events, a, b) =>
                LET ka == <<KindOfType(events[a].Type), uuidFallback(events[a].Timestamp)>>
                    kb == <<KindOfType(events[b].Type), uuidFallback(events[b].Timestamp)>>
                IN /\ ka # kb
                   /\ {ka, kb} \subseteq DOMAIN observations
                   /\ observations[ka].id = uuidFallback(events[a].Timestamp)
                   /\ observations[kb].id = uuidFallback(events[b].Timestamp)
                   /\ observations[ka].fallbackTime # observations[kb].fallbackTime
                   /\ Done =>
                        /\ Cardinality(SpansFor(ka)) = 1
                        /\ Cardinality(SpansFor(kb)) = 1
                        /\ SpansFor(ka) # SpansFor(kb)
                        /\ \A i \in SpansFor(ka), j \in SpansFor(kb) :
                               spans[i].SpanId # spans[j].SpanId

\* A span-create and a span-update without id, at different timestamps, are encoded to
\* two spans.
C4_Witness ==
    /\ Done
    /\ Len(events) = 2
    /\ UnkeyedApart(events, 1, 2)
    /\ events[1].Type = IngestionEventTypeSpanCreate
    /\ events[2].Type = IngestionEventTypeSpanUpdate
    /\ Len(payload.spans) = 2

\* Place c holds a span-create that names a parent no event of the batch resolves to,
\* and no earlier event of its key names another parent.
DanglingParent(batch, c) ==
    /\ batch[c].Type = IngestionEventTypeSpanCreate /\ Matches(batch[c])
    /\ batch[c].Body.ParentObservationID # EmptyString
    /\ \A k \in 1..Len(batch) :
           Matches(batch[k]) => ResolvedID(batch[k]) # batch[c].Body.ParentObservationID
    /\ \A k \in 1..(c - 1) :
           Matches(batch[k]) /\ KeyOf(batch[k]) = KeyOf(batch[c]) =>
               batch[k].Body.ParentObservationID = EmptyString

\* C5: a span-create whose parent-observation id names nothing in the batch still
\* yields its span, with parent span id spanID(parent id); every key keeps its span.
C5_DanglingParentKept ==
    Done =>
        \A c \in 1..Len(events) :
            DanglingParent(events, c) =>
                /\ Cardinality(SpansFor(KeyOf(events[c]))) = 1
                /\ \A k \in SpansFor(KeyOf(events[c])) :
                       /\ spans[k].ParentSpanId
                              = spanIDFromString(events[c].Body.ParentObservationID, now)
                       /\ <<4, spans[k].ParentSpanId>> \in Range(payload.spans[k])
                /\ Len(payload.spans) = Cardinality(DistinctKeys(events))

\* The span-create under "missing-parent" is encoded together with its trace's create.
C5_Witness ==
    /\ Done
    /\ Len(events) = 2
    /\ DanglingParent(events, 2)
    /\ events[2].Body.ParentObservationID = MissingParent
    /\ events[1].Type = IngestionEventTypeTraceCreate
    /\ ResolvedID(events[1]) = events[2].Body.TraceID
    /\ Len(payload.spans) = 2

\* C9: encoding is deterministic: the payload returned is the only payload a call on
\* the same events can return.
C9_Deterministic == Done => AllPayloads(events, now) = {payload}

\* The event at place k is skipped: its kind is not handled, or its body has not the
\* record shape of its kind.
Skipped(batch, k) == ~Matches(batch[k])

Without(batch, k) == SubSeq(batch, 1, k - 1) \o SubSeq(batch, k + 1, Len(batch))

\* C10: a skipped event creates and changes no state and no trace context, and the
\* payload is one the batch without that event yields.
C10_SkippedIsNoOp ==
    /\ pc = "aggregate" /\ idx > 1 /\ Skipped(events, idx - 1) =>
           observations = AggregateAll(SubSeq(events, 1, idx - 2))
    /\ Done =>
        \A k \in 1..Len(events) :
            Skipped(events, k) =>
                /\ err = FALSE
                /\ observations = AggregateAll(Without(events, k))
                /\ traceContexts \in ContextChoices(Without(events, k), now)
                /\ payload \in AllPayloads(Without(events, k), now)

\* A batch holding a score-create next to a matching event is encoded.
C10_Witness ==
    /\ Done
    /\ \E k \in 1..Len(events) : events[k].Type = IngestionEventTypeScoreCreate
    /\ \E k \in 1..Len(events) : Matches(events[k])
    /\ Len(payload.spans) = 1

(***************************************************************************)
(* The identifier derivers as a machine: one id, called repeatedly while   *)
(* the wall clock advances.                                                *)
(***************************************************************************)
\* n hex digits, digit k being k * step modulo 16.
HexPattern(n, step) == [k \in 1..n |-> <<HexDigits[((k * step) % 16) + 1]>>]

\* strings.ToUpper of a string of hex digits.
UpperOf(s) ==
    [k \in 1..Len(s) |->
        IF \E j \in 1..Len(LowerCase) : LowerCase[j] = s[k][1]
        THEN <<UpperCase[CHOOSE j \in 1..Len(LowerCase) : LowerCase[j] = s[k][1]]>>
        ELSE s[k]]

\* s with a hyphen after its 8th, 12th, 16th and 20th character (the UUID layout).
RECURSIVE Hyphenated(_, _)
Hyphenated(s, done) ==
    IF s = EmptyString THEN EmptyString
    ELSE <<Head(s)>>
         \o (IF done + 1 \in {8, 12, 16, 20} /\ Len(s) > 1 THEN <<<<"-">>>> ELSE EmptyString)
         \o Hyphenated(Tail(s), done + 1)

\* s with its first character replaced by a letter that is no hex digit.
Poisoned(s) == IF s = EmptyString THEN Str(<<"t", "1">>) ELSE <<<<"g">>>> \o Tail(s)

IdLengths ==
    {0, 1} \cup {SpanHexLen + d : d \in (-Slack)..Slack}
           \cup {TraceHexLen + d : d \in (-Slack)..Slack}

IdInputs ==
    UNION { LET s == HexPattern(n, step)
            IN {s, UpperOf(s), Hyphenated(s, 0), UpperOf(Hyphenated(s, 0)),
                <<<<" ">>>> \o s \o <<<<"\t">>>>, Poisoned(s),
                uuidFallback(n)}
          : n \in IdLengths, step \in {1, 7} }

EncoderIdle ==
    /\ events = <<>>
    /\ pc = "idle"
    /\ idx = 0
    /\ traceContexts = <<>>
    /\ observations = <<>>
    /\ order = <<>>
    /\ spans = <<>>
    /\ payload = <<>>
    /\ err = FALSE

InitIds ==
    /\ idIn \in IdInputs
    /\ now = 0
    /\ traceOut = <<>>
    /\ spanOut = <<>>
    /\ EncoderIdle
    /\ RestIdle

\* One call traceIDFromString(idIn).
CallTraceID ==
    /\ pc = "idle"
    /\ Len(traceOut) < MaxCalls
    /\ traceOut' = Append(traceOut, traceIDFromString(idIn, now))
    /\ UNCHANGED <<idIn, now, spanOut>>
    /\ UNCHANGED encVars
    /\ UNCHANGED restVars

\* One call spanIDFromString(idIn).
CallSpanID ==
    /\ pc = "idle"
    /\ Len(spanOut) < MaxCalls
    /\ spanOut' = Append(spanOut, spanIDFromString(idIn, now))
    /\ UNCHANGED <<idIn, now, traceOut>>
    /\ UNCHANGED encVars
    /\ UNCHANGED restVars

\* The wall clock advances between two calls.
Tick ==
    /\ pc = "idle"
    /\ now < MaxClock
    /\ now' = now + 1
    /\ UNCHANGED idVars
    /\ UNCHANGED encVars
    /\ UNCHANGED restVars

NextIds == CallTraceID \/ CallSpanID \/ Tick

SpecIds == InitIds /\ [][NextIds]_vars

(***************************************************************************)
(* Claims about the identifier derivers.                                   *)
(***************************************************************************)
\* The normal form the claims speak of: lowercased, hyphens stripped.
NormalForm(id) == StripHyphens(ToLower(id))

\* s is exactly n hex digits.
IsHexOfLen(s, n) == Len(s) = n /\ \A k \in 1..Len(s) : IsHexChar(s[k])

IsPlainBytes(bytes) == \A k \in 1..Len(bytes) : bytes[k][1] # "h"

\* C6: an id whose normal form (lowercased, hyphens stripped) is exactly 32 hex
\* digits is mapped by traceIDFromString to the 16 bytes those digits decode to;
\* no digest byte appears in the result of a literal id.
C6_TraceRoundTrip ==
    IsHexOfLen(NormalForm(idIn), TraceHexLen) =>
        \A k \in 1..Len(traceOut) :
            /\ traceOut[k] = HexDecode(NormalForm(idIn))
            /\ Len(traceOut[k]) = TraceIDLen
            /\ (\A j \in 1..Len(idIn) : IsLiteral(idIn[j])) => IsPlainBytes(traceOut[k])

\* A UUID-shaped id with upper-case digits and hyphens has been derived.
C6_Witness ==
    /\ IsHexOfLen(NormalForm(idIn), TraceHexLen)
    /\ \E k \in 1..Len(idIn) : idIn[k] = <<"-">>
    /\ \E k \in 1..Len(idIn) : idIn[k] = <<"F">>
    /\ Len(traceOut) = MaxCalls
    /\ traceOut[1][1] = <<"b", 1 * 16 + 2>>

\* C7: an id whose normal form is exactly 16 hex digits is mapped by
\* spanIDFromString to the 8 bytes they decode to; one whose normal form is
\* exactly 32 hex digits to the first 8 of the 16 bytes they decode to.
C7_SpanRoundTrip ==
    \A k \in 1..Len(spanOut) :
        /\ IsHexOfLen(NormalForm(idIn), SpanHexLen) =>
               spanOut[k] = HexDecode(NormalForm(idIn)) /\ Len(spanOut[k]) = SpanIDLen
        /\ IsHexOfLen(NormalForm(idIn), TraceHexLen) =>
               spanOut[k] = SubSeq(HexDecode(NormalForm(idIn)), 1, SpanIDLen)
               /\ Len(spanOut[k]) = SpanIDLen

\* A 32-digit id with hyphens has been derived to its first 8 decoded bytes.
C7_Witness ==
    /\ IsHexOfLen(NormalForm(idIn), TraceHexLen)
    /\ \E k \in 1..Len(idIn) : idIn[k] = <<"-">>
    /\ Len(spanOut) = MaxCalls
    /\ spanOut[1] = SubSeq(HexDecode(NormalForm(idIn)), 1, SpanIDLen)
    /\ IsPlainBytes(spanOut[1])

\* The id is none of the hex shapes the derivers decode.
IsNonHexID(id) ==
    /\ ~IsHexOfLen(normalizeHex(id), TraceHexLen)
    /\ ~IsHexOfLen(normalizeHex(id), SpanHexLen)

MaxParEvents == 2   \* length of the batches of the concurrent calls

Callers == {1, 2}

ParUniverse ==
    {IngestionEvent(IngestionEventTypeTraceCreate, T1, 1,
        [ZeroTrace EXCEPT !.ID = T1, !.Name = TextA, !.UserID = TextA, !.Public = TRUE]),
     IngestionEvent(IngestionEventTypeSpanCreate, S1, 1,
        [ZeroSpan EXCEPT !.ID = S1, !.TraceID = T1, !.Name = TextA, !.Output = ValueA]),
     IngestionEvent(IngestionEventTypeSpanUpdate, S1, 2,
        [ZeroSpan EXCEPT !.ID = S1, !.EndTime = Ptr(14), !.Output = ValueB])}

ParBatches == SeqsUpTo(ParUniverse, MaxParEvents)

\* The locals of a call on batch when it enters EncodeEvents.
EntryLocals(batch) ==
    [events |-> batch,
     pc |-> IF batch = <<>> THEN "spans" ELSE "contexts",
     idx |-> 1,
     traceContexts |-> <<>>,
     observations |-> <<>>,
     order |-> <<>>,
     spans |-> <<>>,
     payload |-> <<>>,
     err |-> FALSE]

InitPar ==
    /\ DeriversIdle
    /\ EncoderIdle
    /\ calls \in [Callers -> {EntryLocals(batch) : batch \in ParBatches}]
    /\ cache = <<>>
    /\ request = <<>>
    /\ response = <<>>

\* A mutant of ObservationsOf: the observations map is one package-level map.
ObservationsShared(all, c) == all[1].observations

\* The observations map call c works on: the map it made at line 514.
ObservationsOf(all, c) == all[c].observations

\* The trace contexts call c works on: the map it made at line 495.
ContextsOf(all, c) == all[c].traceContexts

\* One iteration of the first loop of call c.
ParContextStep(c) ==
    LET my == calls[c]
    IN /\ my.pc = "contexts"
       /\ my.idx <= Len(my.events)
       /\ \E visit \in MetadataOrders(IF asTrace(my.events[my.idx].Body)
                                      THEN my.events[my.idx].Body.Metadata ELSE Nil) :
              calls' = [calls EXCEPT
                  ![c].traceContexts =
                      ContextsAfter(ContextsOf(calls, c), my.events[my.idx], visit, now),
                  ![c].pc = IF my.idx = Len(my.events) THEN "aggregate" ELSE my.pc,
                  ![c].idx = IF my.idx = Len(my.events) THEN 1 ELSE my.idx + 1]
       /\ UNCHANGED <<idIn, now, traceOut, spanOut, cache, request, response>>
       /\ UNCHANGED encVars

\* One iteration of the second loop of call c.
ParAggregateStep(c) ==
    LET my == calls[c]
    IN /\ my.pc = "aggregate"
       /\ my.idx <= Len(my.events)
       /\ calls' = [calls EXCEPT
              ![c].observations = ApplyEvent(ObservationsOf(calls, c), my.events[my.idx]),
              ![c].pc = IF my.idx = Len(my.events) THEN "spans" ELSE my.pc,
              ![c].idx = IF my.idx = Len(my.events) THEN 1 ELSE my.idx + 1]
       /\ UNCHANGED <<idIn, now, traceOut, spanOut, cache, request, response>>
       /\ UNCHANGED encVars

\* One iteration of the third loop of call c.
ParSpanStep(c) ==
    LET my == calls[c]
        obs == ObservationsOf(calls, c)
    IN /\ my.pc = "spans"
       /\ \E key \in DOMAIN obs \ Range(my.order) :
            \E visit \in MetadataOrders(obs[key].metadata) :
              calls' = [calls EXCEPT
                  ![c].spans = Append(my.spans,
                      buildSpan(obs[key], Lookup(ContextsOf(calls, c), obs[key].traceID),
                                visit, now)),
                  ![c].order = Append(my.order, key)]
       /\ UNCHANGED <<idIn, now, traceOut, spanOut, cache, request, response>>
       /\ UNCHANGED encVars

\* Call c marshals its request and returns.
ParMarshalStep(c) ==
    LET my == calls[c]
    IN /\ my.pc = "spans"
       /\ DOMAIN ObservationsOf(calls, c) = Range(my.order)
       /\ calls' = [calls EXCEPT ![c].payload = Marshal(my.spans),
                                 ![c].err = (Marshal(my.spans) = Nil),
                                 ![c].pc = "done"]
       /\ UNCHANGED <<idIn, now, traceOut, spanOut, cache, request, response>>
       /\ UNCHANGED encVars

NextPar ==
    \E c \in Callers :
        ParContextStep(c) \/ ParAggregateStep(c) \/ ParSpanStep(c) \/ ParMarshalStep(c)

SpecPar == InitPar /\ [][NextPar]_vars

\* C11: the calls share nothing: whatever the interleaving of the steps of two
\* concurrent calls, each on its own batch, what a call returns is a result the same
\* call returns when it runs alone on that batch.
C11_CallsIndependent ==
    \A c \in Callers :
        calls[c].pc = "done" =>
            /\ calls[c].payload \in AllPayloads(calls[c].events, now)
            /\ calls[c].err = (calls[c].payload = Nil)

\* Both calls have returned, on different batches that aggregate a common key, with
\* different payloads.
C11_Witness ==
    /\ \A c \in Callers : calls[c].pc = "done"
    /\ calls[1].events # calls[2].events
    /\ DistinctKeys(calls[1].events) \cap DistinctKeys(calls[2].events) # {}
    /\ calls[1].payload # calls[2].payload

(***************************************************************************)
(* Claims about the envelope.                                              *)
(***************************************************************************)
\* The span of the payload that carries the span id derived from key's resolved id.
PayloadSpansOf(key) ==
    {k \in 1..Len(payload.spans) : <<2, spanIDFromString(key[2], now)>> \in Range(payload.spans[k])}

MaxKeys == 2        \* cache keys handed to one batch lookup
MaxData == 2        \* observations in one reply

StatusOK == 200
StatusBadRequest == 400

cacheMetadataKey == Str(<<"cache_key">>)

ObservationTypeGeneration == Str(<<"GENERATION">>)

\* model.ObservationView: the fields the lookup reads or the caller is handed.
ObservationView(id, metadata) == [ID |-> id, Metadata |-> metadata]

\* The metadata values a decoded observation may hold under "cache_key".
CacheKeys == {KeyJ, KeyK}

Views ==
    {ObservationView(k, <<"map[string]any", [m \in {cacheMetadataKey} |-> <<"string", k>>]>>)
        : k \in CacheKeys}
    \cup {ObservationView(S1, <<"map[string]any", [m \in {cacheMetadataKey} |-> <<"float64", 1>>]>>),
          ObservationView(S2, <<"map[string]any", [m \in {KeyJ} |-> <<"string", KeyJ>>]>>),
          ObservationView(E1, Nil)}

\* What l.client.Observations leaves: a transport error, or a response with a status
\* code, a raw body and the decoded observations.
Replies ==
    {[err |-> TRUE, Code |-> 0, RawBody |-> Nil, Data |-> <<>>]}
    \cup {[err |-> FALSE, Code |-> StatusBadRequest, RawBody |-> raw, Data |-> <<>>]
            : raw \in {Nil, Ptr(TextA)}}
    \cup {[err |-> FALSE, Code |-> StatusOK, RawBody |-> Ptr(TextA), Data |-> data]
            : data \in SeqsUpTo(Views, MaxData)}

\* ObservationsResponse.IsSuccess
IsSuccess(code) == code < StatusBadRequest

\* extractCacheKeyFromMetadata: the pair (cacheKey, ok).
extractCacheKeyFromMetadata(metadata) ==
    IF /\ metadata # Nil
       /\ metadata[1] \in {"map[string]any", "model.M"}
       /\ cacheMetadataKey \in DOMAIN metadata[2]
    THEN LET val == metadata[2][cacheMetadataKey]
         IN IF val # Nil /\ val[1] = "string" THEN <<val[2], TRUE>> ELSE <<EmptyString, FALSE>>
    ELSE <<EmptyString, FALSE>>

\* The filters of the request (lines 77-100), and the request (lines 107-115).
observationFilter(type, column, key, value) ==
    [Type |-> type, Column |-> column, Operator |-> "=", Value |-> value, Key |-> key]

ObservationsRequest(cacheKey, options) ==
    [Page |-> Ptr(1), Limit |-> Ptr(1), OrderBy |-> Ptr("startTime"),
     Filter |-> jsonString(<<"filters",
        << observationFilter("string", "type", EmptyString, ObservationTypeGeneration),
           observationFilter("stringObject", "metadata", cacheMetadataKey, cacheKey) >>
        \o Opt(options # Nil /\ Deref(options).Name # EmptyString,
               observationFilter("string", "name", EmptyString,
                                 IF options # Nil THEN Deref(options).Name ELSE EmptyString))>>)]

\* The first observation of data whose metadata holds cacheKey, nil when none does
\* (lines 129-139).
FirstMatch(data, cacheKey) ==
    LET hits == {i \in 1..Len(data) :
                    LET found == extractCacheKeyFromMetadata(data[i].Metadata)
                    IN found[2] /\ found[1] = cacheKey}
    IN IF hits = {} THEN Nil ELSE data[CHOOSE i \in hits : \A j \in hits : i <= j]

\* A mutant of findCachedGeneration: the first observation of the reply is returned
\* without a look at its metadata.
findCachedGenerationUnchecked(cacheKey, options, reply) ==
    IF reply.err \/ ~IsSuccess(reply.Code) THEN [obs |-> Nil, err |-> TRUE]
    ELSE [obs |-> IF reply.Data = <<>> THEN Nil ELSE reply.Data[1], err |-> FALSE]

\* A mutant of findCachedGeneration: a response that is no success counts as a miss.
findCachedGenerationLenient(cacheKey, options, reply) ==
    IF reply.err THEN [obs |-> Nil, err |-> TRUE]
    ELSE IF ~IsSuccess(reply.Code) THEN [obs |-> Nil, err |-> FALSE]
    ELSE [obs |-> FirstMatch(reply.Data, cacheKey), err |-> FALSE]

\* findCachedGeneration, given the reply to its request: the pair (observation, error).
findCachedGeneration(cacheKey, options, reply) ==
    IF reply.err THEN [obs |-> Nil, err |-> TRUE]
    ELSE IF ~IsSuccess(reply.Code) THEN [obs |-> Nil, err |-> TRUE]
    ELSE [obs |-> FirstMatch(reply.Data, cacheKey), err |-> FALSE]

\* A mutant of BatchResultAfter: the lookup's result is stored whether or not it is nil.
BatchResultAlways(result, cacheKey, obs) == <<"map", Put(result[2], cacheKey, obs)>>

\* if obs != nil { result[cacheKey] = obs }
BatchResultAfter(result, cacheKey, obs) ==
    IF obs # Nil THEN <<"map", Put(result[2], cacheKey, obs)>> ELSE result

\* The reply held an observation whose metadata is an object with the string key
\* under "cache_key".
ReplyMatches(reply, key) ==
    /\ ~reply.err
    /\ reply.Code < StatusBadRequest
    /\ \E i \in 1..Len(reply.Data) :
          LET metadata == reply.Data[i].Metadata
          IN /\ metadata # Nil
             /\ cacheMetadataKey \in DOMAIN metadata[2]
             /\ metadata[2][cacheMetadataKey] = <<"string", key>>

GenerationCacheOptions == {Nil, Ptr([Name |-> EmptyString]), Ptr([Name |-> TextA])}

CacheCall(op, cacheKeys, options) ==
    [op |-> op, cacheKeys |-> cacheKeys, options |-> options, pc |-> op, pos |-> 1,
     result |-> Nil, obs |-> Nil, err |-> FALSE, requests |-> <<>>, reply |-> Nil,
     matched |-> <<>>]

InitCache ==
    /\ DeriversIdle
    /\ EncoderIdle
    /\ calls = <<>>
    /\ request = <<>>
    /\ response = <<>>
    /\ cache \in
         {CacheCall("single", <<key>>, options)
            : key \in CacheKeys \cup {EmptyString}, options \in GenerationCacheOptions}
         \cup {CacheCall("batch", keys, options)
            : keys \in SeqsUpTo(CacheKeys \cup {EmptyString}, MaxKeys),
              options \in GenerationCacheOptions}

\* FindCachedGeneration (lines 41-47).
CallFindCachedGeneration ==
    /\ cache.pc = "single"
    /\ LET cacheKey == cache.cacheKeys[1]
       IN IF cacheKey = EmptyString
          THEN cache' = [cache EXCEPT !.err = TRUE, !.pc = "done"]
          ELSE \E reply \in Replies :
                 LET out == findCachedGeneration(cacheKey, cache.options, reply)
                 IN cache' = [cache EXCEPT
                        !.requests = Append(@, ObservationsRequest(cacheKey, cache.options)),
                        !.reply = Ptr(reply),
                        !.obs = out.obs,
                        !.err = out.err,
                        !.pc = "done"]
    /\ UNCHANGED <<idIn, now, traceOut, spanOut, calls, request, response>>
    /\ UNCHANGED encVars

\* FindCachedGenerationBatch up to its loop (lines 52-56).
BatchEnter ==
    /\ cache.pc = "batch"
    /\ cache' = [cache EXCEPT !.result = <<"map", <<>>>>,
                              !.pc = IF Len(cache.cacheKeys) = 0 THEN "done" ELSE "loop"]
    /\ UNCHANGED <<idIn, now, traceOut, spanOut, calls, request, response>>
    /\ UNCHANGED encVars

\* One iteration of the loop of FindCachedGenerationBatch (lines 58-71); after the last
\* one the call returns (line 73).
BatchStep ==
    /\ cache.pc = "loop"
    /\ cache.pos <= Len(cache.cacheKeys)
    /\ LET cacheKey == cache.cacheKeys[cache.pos]
       IN IF cacheKey = EmptyString
          THEN cache' = [cache EXCEPT !.result = Nil, !.err = TRUE, !.pc = "done"]
          ELSE \E reply \in Replies :
                 LET out == findCachedGeneration(cacheKey, cache.options, reply)
                 IN cache' = [cache EXCEPT
                        !.requests = Append(@, ObservationsRequest(cacheKey, cache.options)),
                        !.reply = Ptr(reply),
                        !.matched = Append(@, ReplyMatches(reply, cacheKey)),
                        !.result = IF out.err THEN Nil
                                   ELSE BatchResultAfter(@, cacheKey, out.obs),
                        !.err = out.err,
                        !.pos = @ + 1,
                        !.pc = IF out.err \/ cache.pos = Len(cache.cacheKeys)
                               THEN "done" ELSE "loop"]
    /\ UNCHANGED <<idIn, now, traceOut, spanOut, calls, request, response>>
    /\ UNCHANGED encVars

NextCache == CallFindCachedGeneration \/ BatchEnter \/ BatchStep

SpecCache == InitCache /\ [][NextCache]_vars

\* C13: FindCachedGeneration returns an observation only if its metadata holds the
\* requested cache key, as a string, under "cache_key"; when the response is a success
\* and none of its observations matches, it returns nil and no error.
C13_HitHoldsCacheKey ==
    (cache.op = "single" /\ cache.pc = "done") =>
        /\ cache.obs # Nil =>
              /\ cache.obs.Metadata # Nil
              /\ cacheMetadataKey \in DOMAIN cache.obs.Metadata[2]
              /\ cache.obs.Metadata[2][cacheMetadataKey] = <<"string", cache.cacheKeys[1]>>
        /\ (/\ cache.reply # Nil
            /\ ~Deref(cache.reply).err
            /\ Deref(cache.reply).Code < StatusBadRequest
            /\ ~ReplyMatches(Deref(cache.reply), cache.cacheKeys[1]))
           => cache.obs = Nil /\ ~cache.err

\* A lookup has returned the second observation of a reply whose first one holds
\* another cache key.
C13_Witness ==
    /\ cache.op = "single"
    /\ cache.pc = "done"
    /\ cache.obs # Nil
    /\ Len(Deref(cache.reply).Data) = 2
    /\ cache.obs = Deref(cache.reply).Data[2]
    /\ cache.obs # Deref(cache.reply).Data[1]

\* C14: a successful FindCachedGenerationBatch returns a map whose keys are exactly the
\* requested cache keys a matching generation was found for; a key without one is not
\* in the map (nor mapped to nil); for no keys the map is empty and no request is issued.
C14_BatchKeySet ==
    (cache.op = "batch" /\ cache.pc = "done" /\ ~cache.err) =>
        /\ cache.result # Nil
        /\ DOMAIN cache.result[2]
              = {cache.cacheKeys[i] : i \in {j \in 1..Len(cache.matched) : cache.matched[j]}}
        /\ Len(cache.matched) = Len(cache.cacheKeys)
        /\ \A key \in DOMAIN cache.result[2] : cache.result[2][key] # Nil
        /\ cache.cacheKeys = <<>> => cache.result[2] = <<>> /\ cache.requests = <<>>

\* A batch lookup of two keys has succeeded with a generation found for the first key
\* and none for the second.
C14_Witness ==
    /\ cache.op = "batch"
    /\ cache.pc = "done"
    /\ ~cache.err
    /\ Len(cache.cacheKeys) = 2
    /\ cache.matched = <<TRUE, FALSE>>
    /\ DOMAIN cache.result[2] = {cache.cacheKeys[1]}

\* C15: FindCachedGenerationBatch fetches the generations of all the requested keys in
\* one API call: a successful lookup of one or more keys has issued one request.
C15_OneRequest ==
    (cache.op = "batch" /\ cache.pc = "done" /\ ~cache.err /\ cache.cacheKeys # <<>>) =>
        Len(cache.requests) = 1

(***************************************************************************)
(* PromptRequest.Path (package api): the path and query of a prompt        *)
(* retrieval, as the string the method returns.                            *)
(***************************************************************************)
\* The characters net/url escapes in the strings tried, with their percent codes.
PercentCodes ==
    << <<" ", "2", "0">>, <<"#", "2", "3">>, <<"%", "2", "5">>, <<"&", "2", "6">>,
       <<"+", "2", "B">>, <<"/", "2", "F">>, <<"=", "3", "D">>, <<"?", "3", "F">> >>

\* url.shouldEscape(c, mode) for mode encodePathSegment or encodeQueryComponent:
\* letters, digits and -_.~ are never escaped; of the reserved characters a path
\* segment keeps $&+=:@ and a query component none; every other character is escaped.
shouldEscape(ch, mode) ==
    /\ \E k \in 1..Len(PercentCodes) : ch = <<PercentCodes[k][1]>>
    /\ mode = "encodePathSegment" => ch \notin {<<"&">>, <<"+">>, <<"=">>}

\* url.escape(s, mode): %XX for an escaped character, + for a space of a query component.
RECURSIVE escape(_, _)
escape(s, mode) ==
    IF s = <<>> THEN <<>>
    ELSE LET ch == Head(s)
             code == PercentCodes[CHOOSE k \in 1..Len(PercentCodes) : ch = <<PercentCodes[k][1]>>]
         IN (IF ~shouldEscape(ch, mode) THEN <<ch>>
             ELSE IF ch = <<" ">> /\ mode = "encodeQueryComponent" THEN <<<<"+">>>>
             ELSE <<<<"%">>, <<code[2]>>, <<code[3]>>>>)
            \o escape(Tail(s), mode)

PathEscape(s) == escape(s, "encodePathSegment")

QueryEscape(s) == escape(s, "encodeQueryComponent")

ParamEnvironment == Str(<<"e", "n", "v", "i", "r", "o", "n", "m", "e", "n", "t">>)
ParamLabel == Str(<<"l", "a", "b", "e", "l">>)
ParamVersion == Str(<<"v", "e", "r", "s", "i", "o", "n">>)

\* url.Values.Encode: key=value for each key in sorted order, joined by &.
RECURSIVE JoinPairs(_, _)
JoinPairs(values, keys) ==
    IF keys = <<>> THEN <<>>
    ELSE QueryEscape(Head(keys)) \o <<<<"=">>>> \o QueryEscape(values[Head(keys)])
         \o (IF Len(keys) > 1 THEN <<<<"&">>>> ELSE <<>>)
         \o JoinPairs(values, Tail(keys))

Encode(values) ==
    JoinPairs(values, SelectSeq(<<ParamEnvironment, ParamLabel, ParamVersion>>,
                                LAMBDA key : key \in DOMAIN values))

\* A mutant of QueryParams: the label is set whenever it is not empty.
QueryParamsLabelAlways(p) ==
    LET scoped == IF p.Environment # EmptyString
                  THEN Put(<<>>, ParamEnvironment, p.Environment) ELSE <<>>
        pinned == IF p.Version # Nil
                  THEN Put(scoped, ParamVersion, Itoa(Deref(p.Version))) ELSE scoped
    IN IF p.Label # EmptyString THEN Put(pinned, ParamLabel, p.Label) ELSE pinned

\* The url.Values Path fills (lines 174-184).
QueryParams(p) ==
    LET scoped == IF p.Environment # EmptyString
                  THEN Put(<<>>, ParamEnvironment, p.Environment) ELSE <<>>
    IN IF p.Version # Nil THEN Put(scoped, ParamVersion, Itoa(Deref(p.Version)))
       ELSE IF p.Label # EmptyString THEN Put(scoped, ParamLabel, p.Label)
       ELSE scoped

PromptsPath == Str(<<"/api/public/v2/prompts/">>)

\* PromptRequest.Path: the pair (path, error).
Path(p) ==
    IF p.Name = EmptyString THEN [path |-> EmptyString, err |-> TRUE]
    ELSE LET encodedQuery == Encode(QueryParams(p))
         IN [path |-> PromptsPath \o PathEscape(p.Name)
                      \o (IF encodedQuery # EmptyString
                          THEN <<<<"?">>>> \o encodedQuery ELSE <<>>),
             err |-> FALSE]

PromptRequest(name, version, label, environment) ==
    [Name |-> name, Version |-> version, Label |-> label, Environment |-> environment]

\* The requests Path is called on: names, labels and environments with characters a
\* URL gives a meaning to.
PromptNames ==
    {EmptyString, TextA, Str(<<"a", "/", "b">>), Str(<<"a", " ", "b">>),
     Str(<<"p", "?">>) \o ParamLabel \o Str(<<"=", "x">>)}
PromptLabels ==
    {EmptyString, TextA, Str(<<"a", " ", "b">>),
     Str(<<"x", "&">>) \o ParamVersion \o Str(<<"=", "9">>)}
PromptVersions == {Nil, Ptr(0), Ptr(3), Ptr(12)}
PromptEnvironments == {EmptyString, TextB, Str(<<"e", "=", "1">>)}

InitPath ==
    /\ DeriversIdle
    /\ EncoderIdle
    /\ calls = <<>>
    /\ cache = <<>>
    /\ response = <<>>
    /\ request \in {[p |-> PromptRequest(name, version, label, environment),
                      pc |-> "call", path |-> EmptyString, err |-> FALSE]
                     : name \in PromptNames, version \in PromptVersions,
                       label \in PromptLabels, environment \in PromptEnvironments}

\* One call p.Path().
CallPath ==
    /\ request.pc = "call"
    /\ request' = [request EXCEPT !.path = Path(request.p).path,
                                  !.err = Path(request.p).err,
                                  !.pc = "done"]
    /\ UNCHANGED <<idIn, now, traceOut, spanOut, calls, cache, response>>
    /\ UNCHANGED encVars

NextPath == CallPath

SpecPath == InitPath /\ [][NextPath]_vars

\* The text of path after its first "?", the empty string when it has none.
RawQuery(path) ==
    LET marks == {k \in 1..Len(path) : path[k] = <<"?">>}
    IN IF marks = {} THEN EmptyString
       ELSE SubSeq(path, (CHOOSE k \in marks : \A j \in marks : k <= j) + 1, Len(path))

\* The pieces of s between the occurrences of sep.
RECURSIVE SplitOn(_, _)
SplitOn(s, sep) ==
    LET at == {k \in 1..Len(s) : s[k] = sep}
    IN IF at = {} THEN <<s>>
       ELSE LET first == CHOOSE k \in at : \A j \in at : k <= j
            IN <<SubSeq(s, 1, first - 1)>> \o SplitOn(SubSeq(s, first + 1, Len(s)), sep)

\* url.QueryUnescape on what QueryEscape wrote.
RECURSIVE Unescape(_)
Unescape(s) ==
    IF s = <<>> THEN <<>>
    ELSE IF Head(s) = <<"+">> THEN <<<<" ">>>> \o Unescape(Tail(s))
    ELSE IF Head(s) = <<"%">> /\ Len(s) >= 3
    THEN LET hits == {k \in 1..Len(PercentCodes) :
                        <<PercentCodes[k][2]>> = s[2] /\ <<PercentCodes[k][3]>> = s[3]}
         IN <<<<PercentCodes[CHOOSE k \in hits : TRUE][1]>>>> \o Unescape(SubSeq(s, 4, Len(s)))
    ELSE <<Head(s)>> \o Unescape(Tail(s))

\* The values the query of path carries for the parameter key, as a server reads them.
QueryValues(path, key) ==
    LET pieces == IF RawQuery(path) = EmptyString THEN <<>> ELSE SplitOn(RawQuery(path), <<"&">>)
        pairs == [k \in 1..Len(pieces) |-> SplitOn(pieces[k], <<"=">>)]
    IN {Unescape(pairs[k][2]) : k \in {j \in 1..Len(pairs) :
                                          Len(pairs[j]) >= 2 /\ Unescape(pairs[j][1]) = key}}

\* C16: Path pins the prompt by version in preference to label: with a version set the
\* query carries that version and no label, whether or not a label is set; the label is
\* carried exactly when it is set and no version is; an empty name yields an error and
\* no path.
C16_VersionOverLabel ==
    request.pc = "done" =>
        LET p == request.p
        IN IF p.Name = EmptyString THEN request.err /\ request.path = EmptyString
           ELSE /\ ~request.err
                /\ p.Version # Nil =>
                      /\ QueryValues(request.path, ParamVersion) = {Itoa(Deref(p.Version))}
                      /\ QueryValues(request.path, ParamLabel) = {}
                /\ p.Version = Nil =>
                      /\ QueryValues(request.path, ParamVersion) = {}
                      /\ QueryValues(request.path, ParamLabel)
                            = IF p.Label = EmptyString THEN {} ELSE {p.Label}

\* Path has been called on a request with both a version and a label set.
C16_Witness ==
    /\ request.pc = "done"
    /\ ~request.err
    /\ request.p.Version # Nil
    /\ request.p.Label # EmptyString
    /\ QueryValues(request.path, ParamVersion) # {}

(***************************************************************************)
(* The response types (package api): SetBody and Decode.  A body is the    *)
(* JSON document its text parses to (<<"invalid">> when it parses to       *)
(* none); a document is <<"null">>, <<"string", s>>, <<"number", n>>,      *)
(* <<"array", values>> or <<"object", members>>, members a function from   *)
(* the keys, spelled as the struct tags spell them, to documents.          *)
(***************************************************************************)
\* string(b) for the bytes read from a body: a string of one symbol naming the document.
Text(doc) == << <<"text", doc, 0, "">> >>

\* model.Prompt, zero.
ZeroPrompt ==
    [ID |-> EmptyString, Name |-> EmptyString, Version |-> 0, Label |-> EmptyString,
     Environment |-> EmptyString, Prompt |-> Nil, Config |-> Nil, Metadata |-> Nil,
     CreatedAt |-> Nil, UpdatedAt |-> Nil]

\* The JSON keys of model.Prompt with the field each names and the kind of value the
\* field's type takes: a string, an int, a time, or anything.
PromptFields ==
    << <<"id", "ID", "string">>, <<"name", "Name", "string">>,
       <<"version", "Version", "number">>, <<"label", "Label", "string">>,
       <<"environment", "Environment", "string">>, <<"prompt", "Prompt", "any">>,
       <<"config", "Config", "any">>, <<"metadata", "Metadata", "any">>,
       <<"createdAt", "CreatedAt", "time">>, <<"updatedAt", "UpdatedAt", "time">> >>

\* The value gives the field of kind a value: (value, ok).
FieldValue(kind, value) ==
    IF kind = "any" THEN <<value, TRUE>>
    ELSE IF kind = "time"
    THEN IF value[1] = "string" /\ Len(value[2]) = 1 /\ value[2][1][1] = "time"
         THEN <<Ptr(value[2][1][2]), TRUE>> ELSE <<Nil, FALSE>>
    ELSE IF value[1] = kind THEN <<value[2], TRUE>> ELSE <<Nil, FALSE>>

\* json.Unmarshal(raw, &prompt) for the document raw: the pair (prompt, error).  null
\* changes nothing; a document that is no object is an error; of an object, every
\* member naming a field sets it when its value fits the field's type, a null member is
\* skipped, and a member that does not fit is an error that leaves the field as it was.
unmarshalPrompt(prompt, raw) ==
    IF raw = <<"null">> THEN <<prompt, FALSE>>
    ELSE IF raw[1] # "object" THEN <<prompt, TRUE>>
    ELSE LET present == {k \in 1..Len(PromptFields) :
                            /\ PromptFields[k][1] \in DOMAIN raw[2]
                            /\ raw[2][PromptFields[k][1]] # <<"null">>}
             got(k) == FieldValue(PromptFields[k][3], raw[2][PromptFields[k][1]])
         IN << [field \in DOMAIN prompt |->
                   IF \E k \in present : PromptFields[k][2] = field /\ got(k)[2]
                   THEN got(CHOOSE k \in present : PromptFields[k][2] = field)[1]
                   ELSE prompt[field]],
               \E k \in present : ~got(k)[2] >>

\* A mutant of hasPromptMetadata: the two timestamps are missing from the keys.
hasPromptMetadataShort(envelope) ==
    \E key \in {"id", "name", "version", "label", "environment", "config", "metadata"} :
        key \in DOMAIN envelope

\* hasPromptMetadata
hasPromptMetadata(envelope) ==
    \E key \in {"id", "name", "version", "label", "environment", "config", "metadata",
                 "createdAt", "updatedAt"} :
        key \in DOMAIN envelope

\* A mutant of RecordRawBody: the raw body is recorded whether or not one is set.
RecordRawBodyAlways(r, rawBody) == [r EXCEPT !.RawBody = Ptr(Text(rawBody))]

\* if r.RawBody == nil { bodyString := string(rawBody); r.RawBody = &bodyString }
RecordRawBody(r, rawBody) ==
    IF r.RawBody = Nil THEN [r EXCEPT !.RawBody = Ptr(Text(rawBody))] ELSE r

\* PromptResponse.Decode(body): the pair (r, error).
PromptResponseDecode(r, body) ==
    IF body.readErr THEN <<r, TRUE>>
    ELSE LET recorded == RecordRawBody(r, body.doc)
         IN IF body.doc[1] \notin {"object", "null"} THEN <<recorded, TRUE>>
            ELSE LET envelope == IF body.doc[1] = "object" THEN body.doc[2] ELSE <<>>
                     from == IF hasPromptMetadata(envelope) THEN body.doc
                             ELSE IF "prompt" \in DOMAIN envelope THEN envelope["prompt"]
                             ELSE body.doc
                     out == unmarshalPrompt(recorded.Prompt, from)
                 IN <<[recorded EXCEPT !.Prompt = out[1]], out[2]>>

\* Response.Decode(body): json.NewDecoder(body).Decode(r); Code and RawBody carry the
\* tag json:"-".
ResponseDecode(r, body) ==
    IF body.readErr \/ body.doc[1] \notin {"object", "null"} THEN <<r, TRUE>>
    ELSE IF body.doc[1] = "object" /\ "successes" \in DOMAIN body.doc[2]
    THEN <<[r EXCEPT !.Data = body.doc[2]["successes"]], FALSE>>
    ELSE <<r, FALSE>>

\* ObservationsResponse.Decode(body): the raw body is recorded when none is set, then
\* the body is decoded into Data and Meta.
ObservationsResponseDecode(r, body) ==
    IF body.readErr THEN <<r, TRUE>>
    ELSE LET recorded == RecordRawBody(r, body.doc)
         IN IF body.doc[1] \notin {"object", "null"} THEN <<recorded, TRUE>>
            ELSE IF body.doc[1] = "object" /\ "data" \in DOMAIN body.doc[2]
            THEN <<[recorded EXCEPT !.Data = body.doc[2]["data"]], FALSE>>
            ELSE <<recorded, FALSE>>

\* OpenTelemetryResponse.Decode(body): the raw body is recorded when none is set; the
\* body is not parsed.
OpenTelemetryResponseDecode(r, body) ==
    IF body.readErr THEN <<r, TRUE>> ELSE <<RecordRawBody(r, body.doc), FALSE>>

\* r.Decode(body) for the type of r.
Decode(r, body) ==
    IF r.type = "PromptResponse" THEN PromptResponseDecode(r, body)
    ELSE IF r.type = "Response" THEN ResponseDecode(r, body)
    ELSE IF r.type = "ObservationsResponse" THEN ObservationsResponseDecode(r, body)
    ELSE OpenTelemetryResponseDecode(r, body)

\* r.SetBody(body): the pair (r, error).
SetBody(r, body) ==
    IF body.readErr THEN <<r, TRUE>> ELSE <<[r EXCEPT !.RawBody = Ptr(Text(body.doc))], FALSE>>

\* The documents of the bodies tried.
NestedPrompt ==
    <<"object", [name |-> <<"string", TextB>>, version |-> <<"number", 1>>,
                 prompt |-> <<"string", TextB>>]>>

\* A value of the type the prompt field named key takes.
MemberFor(key) ==
    IF key = "version" THEN <<"number", 2>>
    ELSE IF key \in {"createdAt", "updatedAt"} THEN <<"string", FormatTime(5)>>
    ELSE IF key \in {"config", "metadata"} THEN <<"object", [k \in {"j"} |-> <<"number", 1>>]>>
    ELSE <<"string", TextA>>

PromptMetadataKeys ==
    {"id", "name", "version", "label", "environment", "config", "metadata", "createdAt",
     "updatedAt"}

Documents ==
    {<<"invalid">>, <<"null">>, <<"array", <<>>>>, <<"string", TextA>>, <<"object", <<>>>>,
     <<"object", [id |-> <<"string", TextA>>, name |-> <<"string", TextA>>,
                  version |-> <<"number", 2>>, prompt |-> <<"string", TextA>>]>>,
     <<"object", [prompt |-> NestedPrompt]>>,
     <<"object", [prompt |-> NestedPrompt, unknown |-> <<"number", 1>>]>>,
     <<"object", [prompt |-> <<"string", TextA>>]>>,
     <<"object", [unknown |-> <<"number", 1>>]>>,
     <<"object", [name |-> <<"number", 5>>, label |-> <<"string", TextA>>]>>,
     <<"object", [name |-> <<"null">>, prompt |-> NestedPrompt]>>,
     <<"object", [data |-> <<"array", <<>>>>, successes |-> <<"array", <<>>>>]>>}
    \cup {<<"object", [k \in {key, "prompt"} |->
                        IF k = "prompt" THEN NestedPrompt ELSE MemberFor(key)]>>
            : key \in PromptMetadataKeys}

\* A body: the document its text parses to, and whether reading it fails.
Readers == [doc : Documents, readErr : BOOLEAN]

ResponseTypes == {"Response", "PromptResponse", "ObservationsResponse", "OpenTelemetryResponse"}

\* A response object as declared: every field zero.
InitDecode ==
    /\ DeriversIdle
    /\ EncoderIdle
    /\ calls = <<>>
    /\ cache = <<>>
    /\ request = <<>>
    /\ response \in {[type |-> type, Code |-> 0, RawBody |-> Nil, Prompt |-> ZeroPrompt,
                       Data |-> Nil, pc |-> "new", before |-> Nil, body |-> Nil,
                       err |-> FALSE] : type \in ResponseTypes}

\* The transport hands the body to r.SetBody.
CallSetBody ==
    /\ response.pc = "new"
    /\ \E body \in Readers :
         response' = [SetBody(response, body)[1] EXCEPT
                          !.pc = IF SetBody(response, body)[2] THEN "done" ELSE "set",
                          !.err = SetBody(response, body)[2]]
    /\ UNCHANGED <<idIn, now, traceOut, spanOut, calls, cache, request>>
    /\ UNCHANGED encVars

\* The transport hands the body to r.Decode; before and body keep what RawBody was
\* before the call and what the call was given.
CallDecode ==
    /\ response.pc \in {"new", "set"}
    /\ \E body \in Readers :
         response' = [Decode(response, body)[1] EXCEPT
                          !.pc = "done",
                          !.before = response.RawBody,
                          !.body = Ptr(body),
                          !.err = Decode(response, body)[2]]
    /\ UNCHANGED <<idIn, now, traceOut, spanOut, calls, cache, request>>
    /\ UNCHANGED encVars

NextDecode == CallSetBody \/ CallDecode

SpecDecode == InitDecode /\ [][NextDecode]_vars

\* Decode has returned from a call whose body could be read.
Decoded == response.pc = "done" /\ response.body # Nil /\ ~Deref(response.body).readErr

\* The member of document value under key when it is of kind tag, else zero.
MemberOf(value, key, tag, zero) ==
    IF key \in DOMAIN value[2] /\ value[2][key][1] = tag THEN value[2][key][2] ELSE zero

\* The prompt was read from the document value: an error when it is no object, else
\* its id, name, version and prompt members are the prompt's.
ReadFrom(value) ==
    IF value[1] # "object" THEN response.err
    ELSE /\ response.Prompt.ID = MemberOf(value, "id", "string", EmptyString)
         /\ response.Prompt.Name = MemberOf(value, "name", "string", EmptyString)
         /\ response.Prompt.Version = MemberOf(value, "version", "number", 0)
         /\ response.Prompt.Prompt
              = IF "prompt" \in DOMAIN value[2] THEN value[2]["prompt"] ELSE Nil

\* The typed fields are those the body decodes to, whatever RawBody was.
TypedFieldsDecoded ==
    LET doc == Deref(response.body).doc
    IN /\ response.type = "PromptResponse" /\ doc[1] = "object" =>
             \/ ReadFrom(doc)
             \/ "prompt" \in DOMAIN doc[2] /\ ReadFrom(doc[2]["prompt"])
       /\ response.type = "ObservationsResponse" /\ doc[1] = "object" =>
             response.Data = IF "data" \in DOMAIN doc[2] THEN doc[2]["data"] ELSE Nil

C18_PromptSource ==
    (Decoded /\ response.type = "PromptResponse") =>
        LET doc == Deref(response.body).doc
        IN /\ doc = <<"invalid">> => response.err
           /\ doc[1] = "object" =>
                 IF \E key \in PromptMetadataKeys : key \in DOMAIN doc[2]
                 THEN ReadFrom(doc)
                 ELSE "prompt" \in DOMAIN doc[2] => ReadFrom(doc[2]["prompt"])

\* A body with updatedAt at the top level and an object under "prompt" has been
\* decoded: the prompt is the whole body's, not the nested object's.
C18_Witness ==
    /\ Decoded
    /\ response.type = "PromptResponse"
    /\ ~response.err
    /\ Deref(response.body).doc[1] = "object"
    /\ DOMAIN Deref(response.body).doc[2] = {"updatedAt", "prompt"}
    /\ response.Prompt.Prompt = NestedPrompt
    /\ response.Prompt.Name = EmptyString
    /\ response.Prompt.UpdatedAt = Ptr(5)

(***************************************************************************)
(* EncodeEvents on the events of one key: every sequence of creates and    *)
(* updates of one span, one generation, one trace or one event, each event *)
(* providing some of its fields, with one of two values, or none.          *)
(***************************************************************************)
MaxKeyEvents == 3   \* events of one key in a batch

\* What an event provides: the first number picks the strings, the level, the times and
\* the prompt version (0: none), the second the values of type any and the usage.
Provisions == {<<0, 0>>, <<1, 1>>, <<2, 2>>, <<1, 0>>, <<0, 2>>}

TextOf(n) == <<EmptyString, TextA, TextB>>[n + 1]
LevelOf(n) == <<EmptyString, ObservationLevelDefault, ObservationLevelError>>[n + 1]
TimeOf(n) == <<Nil, Ptr(11), Ptr(12)>>[n + 1]
AnyOf(n) == <<Nil, ValueA, ValueB>>[n + 1]
MetadataOf(n) == <<Nil, MetaStrings, MetaAny>>[n + 1]
UsageOf(n) == <<ZeroUsage, UsageA, UsageB>>[n + 1]

\* The body of an event of the key of kind zero's type that provides what pick says.
BodyOf(zero, id, pick) ==
    [field \in DOMAIN zero |->
                     IF field = "ID" THEN id
                     ELSE IF field \in {"Name", "StatusMessage", "Version", "TraceID",
                                        "ParentObservationID", "Model", "PromptName"}
                     THEN TextOf(pick[1])
                     ELSE IF field = "Level" THEN LevelOf(pick[1])
                     ELSE IF field \in {"StartTime", "EndTime", "CompletionStartTime", "Timestamp"}
                     THEN TimeOf(pick[1])
                     ELSE IF field = "PromptVersion" THEN pick[1]
                     ELSE IF field \in {"Input", "Output", "ModelParameters"} THEN AnyOf(pick[2])
                     ELSE IF field = "Metadata" THEN MetadataOf(pick[2])
                     ELSE IF field = "Usage" THEN UsageOf(pick[2])
                     ELSE IF field = "Public" THEN pick[2] = 1
                     ELSE zero[field]]

KeyEvents(types, zero, id) ==
    {IngestionEvent(type, EmptyString, 1, BodyOf(zero, id, pick))
        : type \in types, pick \in Provisions}

KeyBatches ==
    SeqsUpTo(KeyEvents({IngestionEventTypeSpanCreate, IngestionEventTypeSpanUpdate}, ZeroSpan, S1),
             MaxKeyEvents)
    \cup SeqsUpTo(KeyEvents({IngestionEventTypeGenerationCreate,
                             IngestionEventTypeGenerationUpdate}, ZeroGeneration, G1),
                  MaxKeyEvents)
    \cup SeqsUpTo(KeyEvents({IngestionEventTypeTraceCreate}, ZeroTrace, T1), MaxKeyEvents)
    \cup SeqsUpTo(KeyEvents({IngestionEventTypeEventCreate}, ZeroEvent, E1), MaxKeyEvents)

InitKey ==
    /\ DeriversIdle
    /\ RestIdle
    /\ events \in KeyBatches
    /\ pc = IF events = <<>> THEN "spans" ELSE "contexts"
    /\ idx = 1
    /\ traceContexts = <<>>
    /\ observations = <<>>
    /\ order = <<>>
    /\ spans = <<>>
    /\ payload = <<>>
    /\ err = FALSE

SpecKey == InitKey /\ [][Next]_vars

\* The events the second loop has been through.
Processed ==
    IF pc = "aggregate" THEN SubSeq(events, 1, idx - 1)
    ELSE IF pc \in {"spans", "done"} THEN events
    ELSE <<>>

IsCreate(event) ==
    event.Type \in {IngestionEventTypeTraceCreate, IngestionEventTypeSpanCreate,
                    IngestionEventTypeGenerationCreate, IngestionEventTypeEventCreate}

IsUpdate(event) ==
    event.Type \in {IngestionEventTypeSpanUpdate, IngestionEventTypeGenerationUpdate}

\* The event provides the field of its body: the field is not empty (not "", nil or 0).
Provides(event, field) == event.Body[field] # ZeroBodyOf(event.Type)[field]

\* The fields a span-update overwrites, a generation-update overwrites besides, and the
\* further fields the creates coalesce: the payload's field and the merged record's.
SpanOverwriteFields ==
    {<<"Output", "output">>, <<"Metadata", "metadata">>, <<"Level", "level">>,
     <<"StatusMessage", "statusMessage">>, <<"Version", "version">>}
GenerationOverwriteFields ==
    {<<"Model", "model">>, <<"ModelParameters", "modelParameters">>,
     <<"PromptName", "promptName">>, <<"PromptVersion", "promptVersion">>}
ObservationCoalesceFields ==
    {<<"TraceID", "traceID">>, <<"ParentObservationID", "parentID">>, <<"Name", "name">>,
     <<"StartTime", "startTime">>, <<"Input", "input">>}
TraceCoalesceFields ==
    {<<"Name", "name">>, <<"Timestamp", "startTime">>, <<"Input", "input">>,
     <<"Output", "output">>, <<"Version", "version">>}

OverwriteFields(kind) ==
    IF kind = "span" THEN SpanOverwriteFields
    ELSE IF kind = "generation" THEN SpanOverwriteFields \cup GenerationOverwriteFields
    ELSE {}

CoalesceFields(kind) ==
    IF kind = "trace" THEN TraceCoalesceFields
    ELSE IF kind = "generation"
    THEN ObservationCoalesceFields \cup SpanOverwriteFields \cup GenerationOverwriteFields
         \cup {<<"CompletionStartTime", "completionStartTime">>, <<"Usage", "usage">>}
    ELSE ObservationCoalesceFields \cup SpanOverwriteFields

\* The places of seq whose event is of the sort test and provides field.
Providers(seq, test(_), field) ==
    {k \in 1..Len(seq) : test(seq[k]) /\ Provides(seq[k], field)}

First(places) == CHOOSE k \in places : \A j \in places : k <= j
Last(places) == CHOOSE k \in places : \A j \in places : k >= j

\* C19: after any sequence of events of one span or generation key, each overwrite-rule
\* field of the merged record is the value of the last update that provides it; when no
\* update provides it, the value of the first create that provides it; else unset.
C19_OverwriteLastUpdate ==
    (Processed # <<>> /\ OverwriteFields(KeyOf(events[1])[1]) # {}) =>
        LET key == KeyOf(events[1])
            state == observations[key]
        IN \A pair \in OverwriteFields(key[1]) :
             LET updates == Providers(Processed, IsUpdate, pair[1])
                 creates == Providers(Processed, IsCreate, pair[1])
             IN state[pair[2]] =
                    IF updates # {} THEN Processed[Last(updates)].Body[pair[1]]
                    ELSE IF creates # {} THEN Processed[First(creates)].Body[pair[1]]
                    ELSE NewObservation(key[1], 1)[pair[2]]

\* A create, an update and a second create of one generation, each providing another
\* model and output than the one before, have been merged: the record holds the update's.
C19_Witness ==
    /\ Done
    /\ Len(events) = 3
    /\ events[1].Type = IngestionEventTypeGenerationCreate
    /\ events[2].Type = IngestionEventTypeGenerationUpdate
    /\ events[3].Type = IngestionEventTypeGenerationCreate
    /\ events[1].Body.Model = TextA /\ events[1].Body.Output = ValueA
    /\ events[2].Body.Model = TextB /\ events[2].Body.Output = ValueB
    /\ events[3].Body.Model = TextA /\ events[3].Body.Output = ValueA
    /\ observations[KeyOf(events[1])].model = TextB
    /\ observations[KeyOf(events[1])].output = ValueB

\* C20: after a sequence of create events only, of one key, every coalesced field of the
\* merged record is the value of the earliest event that provides it, unset when none
\* does: a later create changes no field that is set.
C20_CreateFirstWins ==
    (Processed # <<>> /\ \A k \in 1..Len(Processed) : IsCreate(Processed[k])) =>
        LET key == KeyOf(events[1])
            state == observations[key]
        IN \A pair \in CoalesceFields(key[1]) :
             LET creates == Providers(Processed, IsCreate, pair[1])
             IN state[pair[2]] =
                    IF creates # {} THEN Processed[First(creates)].Body[pair[1]]
                    ELSE NewObservation(key[1], 1)[pair[2]]

\* Three creates of one trace have been merged, the first providing no input and the
\* next two different inputs: the record holds the second event's.
C20_Witness ==
    /\ Done
    /\ Len(events) = 3
    /\ \A k \in 1..3 : events[k].Type = IngestionEventTypeTraceCreate
    /\ events[1].Body.Input = Nil
    /\ events[2].Body.Input = ValueA
    /\ events[3].Body.Input = ValueB
    /\ observations[KeyOf(events[1])].input = ValueA

\* C21: after any sequence of events of one generation key the recorded usage is the
\* usage of the last generation-update that carries a non-zero usage; when there is
\* none, the first non-zero usage a generation-create carries; else the zero usage.
\* (So an event of zero usage changes nothing and a create replaces no non-zero usage.)
C21_UsageRule ==
    (Processed # <<>> /\ KeyOf(events[1])[1] = "generation") =>
        LET updates == Providers(Processed, IsUpdate, "Usage")
            creates == Providers(Processed, IsCreate, "Usage")
        IN observations[KeyOf(events[1])].usage =
               IF updates # {} THEN Processed[Last(updates)].Body.Usage
               ELSE IF creates # {} THEN Processed[First(creates)].Body.Usage
               ELSE ZeroUsage

\* A create with one usage, an update with another and an update with the zero usage
\* have been merged: the record holds the first update's usage.
C21_Witness ==
    /\ Done
    /\ Len(events) = 3
    /\ events[1].Type = IngestionEventTypeGenerationCreate /\ events[1].Body.Usage = UsageA
    /\ events[2].Type = IngestionEventTypeGenerationUpdate /\ events[2].Body.Usage = UsageB
    /\ events[3].Type = IngestionEventTypeGenerationUpdate /\ events[3].Body.Usage = ZeroUsage
    /\ observations[KeyOf(events[1])].usage = UsageB

\* The values of the attributes of span named name, in the order of the span.
AttrsOf(span, name) ==
    LET named == SelectSeq(span.Attributes, LAMBDA attr : attr.key = <<name, EmptyString>>)
    IN [k \in 1..Len(named) |-> named[k].value]

\* C22: after a sequence of trace-create events of one key the trace's public flag is
\* the first event's, and every public-flag value on the span emitted for the trace is
\* that first value.
C22_PublicFromFirst ==
    (Processed # <<>> /\ KeyOf(events[1])[1] = "trace") =>
        /\ observations[KeyOf(events[1])].public = Ptr(events[1].Body.Public)
        /\ Done =>
              \A k \in 1..Len(spans) :
                 \A j \in 1..Len(AttrsOf(spans[k], "langfuse.trace.public")) :
                    AttrsOf(spans[k], "langfuse.trace.public")[j] = <<"bool", events[1].Body.Public>>

\* C23: start and end time are coalesced by updates: after any sequence of events of
\* one span or generation key the recorded end time is that of the first update that
\* carries one (a create records none), and the recorded start time that of the first
\* event that carries one; a later update with another time changes neither.
C23_TimesCoalesced ==
    (Processed # <<>> /\ KeyOf(events[1])[1] \in {"span", "generation"}) =>
        LET state == observations[KeyOf(events[1])]
            ends == Providers(Processed, IsUpdate, "EndTime")
            starts == Providers(Processed, LAMBDA event : TRUE, "StartTime")
        IN /\ state.endTime = IF ends # {} THEN Processed[First(ends)].Body.EndTime ELSE Nil
           /\ state.startTime =
                  IF starts # {} THEN Processed[First(starts)].Body.StartTime ELSE Nil

\* Two updates of one span carrying different end times have been merged: the record
\* holds the first one's.
C23_Witness ==
    /\ Done
    /\ Len(events) = 2
    /\ \A k \in 1..2 : events[k].Type = IngestionEventTypeSpanUpdate
    /\ events[1].Body.EndTime = Ptr(11)
    /\ events[2].Body.EndTime = Ptr(12)
    /\ observations[KeyOf(events[1])].endTime = Ptr(11)

\* C24: a span-update or generation-update whose key no earlier event created makes the
\* state itself; the events of the key that follow, creates included, are merged into
\* that one state (it keeps the update's end time and takes a create's input), and the
\* key yields exactly one span.
C24_UpdateFirst ==
    (Processed # <<>> /\ IsUpdate(events[1])) =>
        LET key == KeyOf(events[1])
            ends == Providers(Processed, IsUpdate, "EndTime")
            inputs == Providers(Processed, IsCreate, "Input")
        IN /\ DOMAIN observations = {key}
           /\ observations[key].endTime =
                  IF ends # {} THEN Processed[First(ends)].Body.EndTime ELSE Nil
           /\ observations[key].input =
                  IF inputs # {} THEN Processed[First(inputs)].Body.Input ELSE Nil
           /\ Done => (order = <<key>> /\ Len(spans) = 1 /\ Len(payload.spans) = 1)

\* An update carrying an end time came first and a create of the same key carrying an
\* input second: one span, one state holding both.
C24_Witness ==
    /\ Done
    /\ Len(events) = 2
    /\ events[1].Type = IngestionEventTypeGenerationUpdate
    /\ events[2].Type = IngestionEventTypeGenerationCreate
    /\ events[1].Body.EndTime = Ptr(11)
    /\ events[2].Body.Input = ValueB
    /\ observations[KeyOf(events[1])].endTime = Ptr(11)
    /\ observations[KeyOf(events[1])].input = ValueB
    /\ Len(payload.spans) = 1

\* A field of an observation state is set: it is not the value a new state holds
\* ("", nil, 0, the zero usage, false).
IsSet(state, field) == state[field] # NewObservation(state.kind, state.fallbackTime)[field]

\* C25: while aggregating, the observations map holds one state for each distinct key
\* of the events gone through and no other, a state stays under its key, and no event
\* returns a field that is set to unset.
C25_OneStatePerKeyNoReset ==
    [][/\ DOMAIN observations' = DistinctKeys(Processed')
       /\ \A key \in DOMAIN observations :
             /\ key \in DOMAIN observations'
             /\ \A field \in DOMAIN observations[key] :
                   IsSet(observations[key], field) => IsSet(observations'[key], field)]_vars

\* A create of span "s1" set its start time and output, and an update of "s1" that
\* carries no start time and another output has been merged: the start time is kept, the
\* output replaced.
C25_Witness ==
    /\ pc = "spans"
    /\ Len(events) = 2
    /\ events[1].Type = IngestionEventTypeSpanCreate
    /\ events[2].Type = IngestionEventTypeSpanUpdate
    /\ KeyOf(events[1]) = SpanKey /\ KeyOf(events[2]) = SpanKey
    /\ events[1].Body.StartTime = Ptr(12) /\ events[2].Body.StartTime = Nil
    /\ events[1].Body.Output = ValueA /\ events[2].Body.Output = ValueB
    /\ observations[SpanKey].startTime = Ptr(12)
    /\ observations[SpanKey].output = ValueB

\* The batch holds a trace-create whose body is a trace and whose key is key.
TraceCreated(key) ==
    \E j \in 1..Len(events) :
        /\ events[j].Type = IngestionEventTypeTraceCreate
        /\ Matches(events[j])
        /\ KeyOf(events[j]) = key

\* C26: the span of a state that is no trace, has no explicit parent-observation id and
\* whose trace id is the key of a trace-create of the batch has, as its parent span id,
\* the span id of the span emitted for that trace; the span of a trace has none.
C26_DefaultParentIsRoot ==
    Done =>
        \A k \in 1..Len(spans) :
            LET state == observations[order[k]]
                traceKey == <<"trace", state.traceID>>
            IN /\ state.kind = observationKindTrace => spans[k].ParentSpanId = <<>>
               /\ (/\ state.kind # observationKindTrace
                   /\ state.parentID = EmptyString
                   /\ TraceCreated(traceKey))
                  => \E j \in 1..Len(spans) :
                        /\ order[j] = traceKey
                        /\ spans[j].SpanId # <<>>
                        /\ spans[k].ParentSpanId = spans[j].SpanId

\* Trace "t1" and an event "e1" of that trace, without parent, have been encoded: the
\* event's span hangs under the trace's.
C26_Witness ==
    /\ Done
    /\ order = <<TraceKey, <<"event", E1>>>>
    /\ observations[<<"event", E1>>].parentID = EmptyString
    /\ observations[<<"event", E1>>].traceID = T1
    /\ spans[2].ParentSpanId = spans[1].SpanId
    /\ spans[1].ParentSpanId = <<>>

\* The first event of the batch that resolves to key; its timestamp is the fallback
\* time of the state of key.
FirstEventOf(key) ==
    CHOOSE j \in 1..Len(events) :
        /\ Matches(events[j]) /\ KeyOf(events[j]) = key
        /\ \A i \in 1..(j - 1) : ~(Matches(events[i]) /\ KeyOf(events[i]) = key)

\* The span emitted for key.
SpanOf(key) == spans[CHOOSE k \in 1..Len(order) : order[k] = key]

\* C27: a span starts at its state's recorded start time, or, when none was recorded,
\* at the timestamp of the first event of the batch that resolves to its key; it ends
\* at the recorded end time, or, when none was recorded, at its start.
C27_SpanTimes ==
    Done =>
        \A key \in DOMAIN observations :
            LET state == observations[key]
                start == IF state.startTime # Nil THEN Deref(state.startTime)
                         ELSE events[FirstEventOf(key)].Timestamp
            IN /\ SpanOf(key).StartTimeUnixNano = start
               /\ SpanOf(key).EndTimeUnixNano =
                      IF state.endTime # Nil THEN Deref(state.endTime) ELSE start

\* The scenario's batch has been encoded: no start time was recorded for span "s1",
\* created at 1 and updated at 2 with end time 14, nor for generation "g1", for which no
\* end time was recorded either; the one spans 1 to 14, the other 1 to 1.
C27_Witness ==
    /\ Done
    /\ Len(events) = 5
    /\ observations[SpanKey].startTime = Nil
    /\ events[FirstEventOf(SpanKey)].Timestamp = 1
    /\ SpanOf(SpanKey).StartTimeUnixNano = 1
    /\ SpanOf(SpanKey).EndTimeUnixNano = 14
    /\ observations[GenerationKey].endTime = Nil
    /\ SpanOf(GenerationKey).StartTimeUnixNano = 1
    /\ SpanOf(GenerationKey).EndTimeUnixNano = 1

\* C28: the trace id of a span is derived from its state's own trace id when that is
\* set; else from the id of the trace context found for the state, when there is one;
\* else from the fallback derived from the state's fallback time.
C28_TraceIDSource ==
    Done =>
        \A key \in DOMAIN observations :
            LET state == observations[key]
                traceCtx == Lookup(traceContexts, state.traceID)
                source == IF state.traceID # EmptyString THEN state.traceID
                          ELSE IF traceCtx # Nil THEN traceCtx.traceID
                          ELSE uuidFallback(state.fallbackTime)
            IN SpanOf(key).TraceId = traceIDFromString(source, now)

\* Span "s1" of trace "t1", which no event of the batch creates, and a span without id
\* and trace id, created at 1, have been encoded: the one's trace id is derived from
\* "t1", the other's from the fallback of 1.
C28_Witness ==
    /\ Done
    /\ traceContexts = <<>>
    /\ DOMAIN observations = {SpanKey, <<"span", uuidFallback(1)>>}
    /\ observations[SpanKey].traceID = T1
    /\ observations[<<"span", uuidFallback(1)>>].traceID = EmptyString
    /\ SpanOf(SpanKey).TraceId = traceIDFromString(T1, now)
    /\ SpanOf(<<"span", uuidFallback(1)>>).TraceId = traceIDFromString(uuidFallback(1), now)
    /\ SpanOf(SpanKey).TraceId # SpanOf(<<"span", uuidFallback(1)>>).TraceId

\* The names of the root-only attributes, and the trace's text fields that are
\* propagated with the names of their attributes.
RootOnlyNames ==
    {"langfuse.trace.name", "langfuse.trace.input", "langfuse.trace.output",
     "langfuse.trace.public"}
PropagatedTexts ==
    {<<"UserID", "langfuse.user.id">>, <<"SessionID", "langfuse.session.id">>,
     <<"Release", "langfuse.release">>, <<"Version", "langfuse.version">>}

\* The last trace-create of the batch for key: the one the key's trace context is of.
LastTraceCreate(key) ==
    events[CHOOSE j \in 1..Len(events) :
              /\ events[j].Type = IngestionEventTypeTraceCreate
              /\ Matches(events[j]) /\ KeyOf(events[j]) = key
              /\ \A i \in (j + 1)..Len(events) :
                    ~(/\ events[i].Type = IngestionEventTypeTraceCreate
                      /\ Matches(events[i]) /\ KeyOf(events[i]) = key)]

MaxMetaKeys == 2    \* non-empty keys a metadata mapping is built from

KeyL == Str(<<"l">>)

MetaKeys == {EmptyString} \cup Range(SubSeq(<<KeyJ, KeyK, KeyL>>, 1, MaxMetaKeys))

\* The dynamic types of a mapping passed as metadata: map[string]string,
\* map[string]any and the package's own model.M.
MetaTypes == {"map[string]string", "map[string]any", "model.M"}

Metadatas ==
    {Nil} \cup { <<type, [k \in keys |-> IF type = "map[string]string" THEN TextA ELSE ValueA]>>
                 : type \in MetaTypes, keys \in SUBSET MetaKeys }

MetaBatches ==
    { << IngestionEvent(IngestionEventTypeTraceCreate, T1, 1,
            [ZeroTrace EXCEPT !.ID = T1, !.Metadata = ofTrace]),
         IngestionEvent(IngestionEventTypeSpanCreate, S1, 1,
            [ZeroSpan EXCEPT !.ID = S1, !.TraceID = T1, !.Metadata = ofSpan]) >>
      : ofTrace \in Metadatas, ofSpan \in Metadatas }

InitMeta ==
    /\ DeriversIdle
    /\ RestIdle
    /\ events \in MetaBatches
    /\ pc = "contexts"
    /\ idx = 1
    /\ traceContexts = <<>>
    /\ observations = <<>>
    /\ order = <<>>
    /\ spans = <<>>
    /\ payload = <<>>
    /\ err = FALSE

SpecMeta == InitMeta /\ [][Next]_vars

\* The attributes of span whose name begins with prefix.
MetadataAttrs(span, prefix) == SelectSeq(span.Attributes, LAMBDA attr : attr.key[1] = prefix)

\* span holds, under prefix, one attribute for each non-empty key of metadata and no
\* other.
OnePerEntry(span, prefix, metadata) ==
    LET keys == DOMAIN metadata[2] \ {EmptyString}
        named == MetadataAttrs(span, prefix)
    IN /\ Len(named) = Cardinality(keys)
       /\ \A key \in keys : \E i \in 1..Len(named) : named[i].key = <<prefix, key>>

\* C30: for a metadata value that is a mapping with n entries under non-empty keys the
\* encoder emits exactly n metadata attributes, one per entry, named by the prefix
\* followed by the entry's key: the observation's metadata on its span, the trace's
\* metadata on every span of the trace.
C30_OneAttributePerEntry ==
    Done =>
        \A key \in DOMAIN observations :
            LET state == observations[key]
                traceKey == <<"trace", state.traceID>>
            IN /\ IsMap(state.metadata) =>
                     OnePerEntry(SpanOf(key), "langfuse.observation.metadata.", state.metadata)
               /\ (TraceCreated(traceKey) /\ IsMap(LastTraceCreate(traceKey).Body.Metadata)) =>
                     OnePerEntry(SpanOf(key), "langfuse.trace.metadata.",
                                 LastTraceCreate(traceKey).Body.Metadata)

(***************************************************************************)
(* Further claims about the trace contexts, the identifiers and the merge. *)
(***************************************************************************)
\* C31: a trace context, once stored under its key, is neither replaced nor modified
\* for the rest of the call: no later trace-create of the key, no step of the
\* aggregation or of the span assembly changes it.
C31_ContextBuiltOnce ==
    [][\A key \in DOMAIN traceContexts :
          /\ key \in DOMAIN traceContexts'
          /\ traceContexts'[key] = traceContexts[key]]_vars

UnkeyedTogether(batch, a, b) ==
    /\ a < b
    /\ Matches(batch[a]) /\ Matches(batch[b])
    /\ KindOfType(batch[a].Type) = KindOfType(batch[b].Type)
    /\ Unkeyed(batch[a]) /\ Unkeyed(batch[b])
    /\ batch[a].Timestamp = batch[b].Timestamp

\* C33: two events of one kind without id and with equal timestamps resolve to the same
\* fallback key and are merged: one state, which holds what the second event carries
\* and the first does not (its name), and one span.
C33_UnkeyedMerged ==
    pc \in {"spans", "done"} =>
        \A a, b \in 1..Len(events) :
            UnkeyedTogether(events, a, b) =>
                LET key == <<KindOfType(events[a].Type), uuidFallback(events[a].Timestamp)>>
                IN /\ KeyOf(events[a]) = key /\ KeyOf(events[b]) = key
                   /\ key \in DOMAIN observations
                   /\ observations[key].id = uuidFallback(events[a].Timestamp)
                   /\ (events[a].Body.Name = EmptyString /\ Len(events) = 2) =>
                          observations[key].name = events[b].Body.Name
                   /\ Len(events) = 2 => DOMAIN observations = {key}
                   /\ Done => Cardinality(SpansFor(key)) = 1
                   /\ (Done /\ Len(events) = 2) => Len(payload.spans) = 1

\* Two event-creates without id, at the same timestamp, the second one named, have been
\* encoded to one span of that name.
C33_Witness ==
    /\ Done
    /\ Len(events) = 2
    /\ UnkeyedTogether(events, 1, 2)
    /\ events[1].Type = IngestionEventTypeEventCreate
    /\ events[1].Body # events[2].Body
    /\ events[2].Body.Name = TextB
    /\ Len(payload.spans) = 1
    /\ observations[KeyOf(events[1])].name = TextB

\* The batch is one create and one update of one span or generation, in either order.
CreateAndUpdate(batch) ==
    /\ Len(batch) = 2
    /\ KeyOf(batch[1]) = KeyOf(batch[2])
    /\ \/ IsCreate(batch[1]) /\ IsUpdate(batch[2])
       \/ IsUpdate(batch[1]) /\ IsCreate(batch[2])

\* C34: for a span or generation key that receives one create and one update, the
\* merged output, metadata, level, status message, version, model, model parameters,
\* usage, prompt name and prompt version are those the same two events yield in the
\* other order, and are the update's wherever the update provides one.
C34_OrderOfCreateAndUpdate ==
    (pc \in {"spans", "done"} /\ CreateAndUpdate(events)) =>
        LET key == KeyOf(events[1])
            state == observations[key]
            swapped == AggregateAll(<<events[2], events[1]>>)[key]
            update == IF IsUpdate(events[1]) THEN events[1] ELSE events[2]
        IN \A pair \in OverwriteFields(key[1]) \cup
                        (IF key[1] = "generation" THEN {<<"Usage", "usage">>} ELSE {}) :
              /\ state[pair[2]] = swapped[pair[2]]
              /\ Provides(update, pair[1]) => state[pair[2]] = update.Body[pair[1]]

\* An update of a generation came before its create, both carrying a model, an output
\* and a usage, each another: the record holds the update's.
C34_Witness ==
    /\ Done
    /\ CreateAndUpdate(events)
    /\ events[1].Type = IngestionEventTypeGenerationUpdate
    /\ events[1].Body.Model = TextB /\ events[2].Body.Model = TextA
    /\ events[1].Body.Usage = UsageB /\ events[2].Body.Usage = UsageA
    /\ events[1].Body.Output = ValueB /\ events[2].Body.Output = ValueA
    /\ observations[KeyOf(events[1])].model = TextB
    /\ observations[KeyOf(events[1])].usage = UsageB
    /\ observations[KeyOf(events[1])].output = ValueB

(***************************************************************************)
(* EncodeEvents on batches in which the trace-creates of a trace sit at    *)
(* every place among the events of its observations.                       *)
(***************************************************************************)
MaxMoveEvents == 3  \* length of the batches

\* Two trace-creates of trace "t1" that carry different attributes, a create and an
\* update of span "s1" of that trace, an event of that trace.
MoveUniverse ==
    {IngestionEvent(IngestionEventTypeTraceCreate, T1, 1,
        [ZeroTrace EXCEPT !.ID = T1, !.Name = TextA, !.UserID = TextA, !.Metadata = MetaAny,
                          !.Public = TRUE]),
     IngestionEvent(IngestionEventTypeTraceCreate, T1, 2,
        [ZeroTrace EXCEPT !.ID = T1, !.Name = TextB, !.Version = TextB]),
     IngestionEvent(IngestionEventTypeSpanCreate, S1, 1,
        [ZeroSpan EXCEPT !.ID = S1, !.TraceID = T1, !.Name = TextA]),
     IngestionEvent(IngestionEventTypeSpanUpdate, S1, 2,
        [ZeroSpan EXCEPT !.ID = S1, !.Output = ValueB]),
     IngestionEvent(IngestionEventTypeEventCreate, E1, 1,
        [ZeroEvent EXCEPT !.ID = E1, !.TraceID = T1, !.ParentObservationID = S1])}

MoveBatches == SeqsUpTo(MoveUniverse, MaxMoveEvents)

InitMove ==
    /\ DeriversIdle
    /\ RestIdle
    /\ events \in MoveBatches
    /\ pc = IF events = <<>> THEN "spans" ELSE "contexts"
    /\ idx = 1
    /\ traceContexts = <<>>
    /\ observations = <<>>
    /\ order = <<>>
    /\ spans = <<>>
    /\ payload = <<>>
    /\ err = FALSE

SpecMove == InitMove /\ [][Next]_vars

\* batch with the event at place j moved to place p.
Moved(batch, j, p) ==
    LET rest == SubSeq(batch, 1, j - 1) \o SubSeq(batch, j + 1, Len(batch))
    IN SubSeq(rest, 1, p - 1) \o <<batch[j]>> \o SubSeq(rest, p, Len(rest))

\* The places of the trace-creates of batch.
TraceCreates(batch) ==
    {j \in 1..Len(batch) : batch[j].Type = IngestionEventTypeTraceCreate /\ Matches(batch[j])}

\* Moving the trace-create at place j to place p takes it past no other trace-create
\* of its key.
KeepsTraceOrder(batch, j, p) ==
    \A i \in TraceCreates(batch) \ {j} :
        (KeyOf(batch[i]) = KeyOf(batch[j])) => ((i < j => i < p) /\ (i > j => i > p))

\* The spans EncodeEvents(batch) may emit for key.
PossibleSpans(batch, key) ==
    LET obs == AggregateAll(batch)
    IN IF key \notin DOMAIN obs THEN {}
       ELSE { buildSpan(obs[key], Lookup(contexts, obs[key].traceID), visit, now)
              : contexts \in ContextChoices(batch, now),
                visit \in MetadataOrders(obs[key].metadata) }

\* The span emitted for every state that is no trace is one the batch may emit with
\* the trace-create of place j moved to place p, for the moves that satisfy allowed.
UnmovedBy(allowed(_, _, _)) ==
    Done =>
        \A j \in TraceCreates(events), p \in 1..Len(events) :
            allowed(events, j, p) =>
                \A key \in DOMAIN observations :
                    observations[key].kind # observationKindTrace =>
                        /\ SpanOf(key) \in PossibleSpans(Moved(events, j, p), key)
                        /\ PossibleSpans(Moved(events, j, p), key) = PossibleSpans(events, key)

C36_DistinctSpanIds ==
    Done =>
        /\ \A j, k \in 1..Len(spans) :
              (j # k /\ spans[j].TraceId = spans[k].TraceId) => spans[j].SpanId # spans[k].SpanId
        /\ \A j \in 1..Len(spans) : spans[j].ParentSpanId # spans[j].SpanId

\* The places of the updates of key that carry an end time.
EndUpdates(key) ==
    {k \in 1..Len(events) : /\ Matches(events[k])
                            /\ KeyOf(events[k]) = key
                            /\ IsUpdate(events[k])
                            /\ Provides(events[k], "EndTime")}

\* C37: the end timestamp of an emitted span is the end time of an update of its key,
\* or else its start timestamp: a state no update gave an end time, whatever its creates
\* carry, is emitted with equal start and end, and so is every state of kind event.
C37_EndOnlyFromUpdates ==
    Done =>
        \A key \in DOMAIN observations :
            /\ SpanOf(key).EndTimeUnixNano =
                  IF EndUpdates(key) # {}
                  THEN Deref(events[First(EndUpdates(key))].Body.EndTime)
                  ELSE SpanOf(key).StartTimeUnixNano
            /\ key[1] = observationKindEvent =>
                  SpanOf(key).EndTimeUnixNano = SpanOf(key).StartTimeUnixNano

\* Span "s1" got only a create, which carries start time 12 and end time 13: its span
\* starts and ends at 12.
C37_Witness ==
    /\ Done
    /\ Len(events) = 1
    /\ events[1].Type = IngestionEventTypeSpanCreate
    /\ events[1].Body.StartTime = Ptr(12)
    /\ events[1].Body.EndTime = Ptr(13)
    /\ SpanKey \in DOMAIN observations
    /\ SpanOf(SpanKey).StartTimeUnixNano = 12
    /\ SpanOf(SpanKey).EndTimeUnixNano = 12

\* The wall-clock times an encode call may run at.
Clocks == 0..MaxClock

\* C38: EncodeEvents hands no empty id to a deriver: every state has an id, every
\* context and every span a trace id that is not empty, so that the contexts, the
\* spans and the payload are the ones the call yields at any other wall-clock time.
C38_NoEmptyIdDerived ==
    /\ \A key \in DOMAIN observations : observations[key].id # EmptyString
    /\ \A key \in DOMAIN traceContexts :
          key # EmptyString /\ traceContexts[key].traceID = key
    /\ \A key \in DOMAIN observations :
          SpanTraceID(observations[key],
                      Lookup(traceContexts, observations[key].traceID)) # EmptyString
    /\ pc \in {"aggregate", "spans", "done"} =>
          \A clock \in Clocks : traceContexts \in ContextChoices(events, clock)
    /\ \A k \in 1..Len(spans), clock \in Clocks :
          \E visit \in MetadataOrders(observations[order[k]].metadata) :
              spans[k] = buildSpan(observations[order[k]],
                                   Lookup(traceContexts, observations[order[k]].traceID),
                                   visit, clock)
    /\ Done => \A clock \in Clocks : payload \in AllPayloads(events, clock)

\* A batch of one event that carries no id, no trace id and no parent id has been
\* encoded: the ids of its span derive from the event's timestamp, at any wall-clock
\* time, and it has no parent.
C38_Witness ==
    /\ Done
    /\ Len(events) = 1
    /\ Matches(events[1])
    /\ Unkeyed(events[1])
    /\ events[1].Type # IngestionEventTypeTraceCreate
    /\ Len(spans) = 1
    /\ spans[1].ParentSpanId = <<>>
    /\ spans[1].SpanId = spanIDFromString(uuidFallback(events[1].Timestamp), MaxClock)
    /\ spans[1].TraceId = traceIDFromString(uuidFallback(events[1].Timestamp), MaxClock)
    /\ spans[1].SpanId # randomBytes(SpanIDLen, now)

(***************************************************************************)
(* A further claim about the batch lookup of the generation cache.         *)
(***************************************************************************)
\* The reply to the last lookup was a transport error or no success.
LookupFailed ==
    /\ cache.reply # Nil
    /\ Deref(cache.reply).err \/ ~IsSuccess(Deref(cache.reply).Code)

\* C39: FindCachedGenerationBatch fails as a whole: a lookup that fails ends the loop;
\* the call returns an error exactly when its last lookup failed or the key after the
\* last lookup is empty, and always when a requested key is empty; with the error it
\* returns a nil map, whatever was found before; the lookups it issued are those of the
\* keys up to the failing one, in order, and none for the keys after it.
C39_BatchAllOrNothing ==
    cache.op = "batch" =>
        LET n == Len(cache.requests)
            emptyNext == n < Len(cache.cacheKeys) /\ cache.cacheKeys[n + 1] = EmptyString
        IN /\ cache.pc = "loop" => ~LookupFailed /\ ~cache.err /\ cache.pos = n + 1
           /\ \A i \in 1..n :
                 /\ i <= Len(cache.cacheKeys)
                 /\ cache.cacheKeys[i] # EmptyString
                 /\ cache.requests[i] = ObservationsRequest(cache.cacheKeys[i], cache.options)
           /\ cache.pc = "done" =>
                 /\ cache.err <=> (LookupFailed \/ emptyNext)
                 /\ cache.err => cache.result = Nil
                 /\ ~cache.err => cache.result # Nil /\ n = Len(cache.cacheKeys)
                 /\ (\E i \in 1..Len(cache.cacheKeys) : cache.cacheKeys[i] = EmptyString)
                       => cache.err /\ cache.result = Nil

\* A batch lookup of two keys found a generation for the first key, its second lookup
\* got a response that is no success: it returned a nil map and an error.
C39_Witness ==
    /\ cache.op = "batch"
    /\ cache.pc = "done"
    /\ Len(cache.cacheKeys) = 2
    /\ cache.matched = <<TRUE, FALSE>>
    /\ Len(cache.requests) = 2
    /\ ~Deref(cache.reply).err
    /\ Deref(cache.reply).Code = StatusBadRequest
    /\ cache.err
    /\ cache.result = Nil

====
